---- MODULE Spec2Model ----
(***************************************************************************)
(* Model of the gossip bridge of iroh-ffi (src/src/gossip.rs):             *)
(* Gossip::subscribe, the receiver task it spawns, and the Sender handle   *)
(* (broadcast, broadcast_neighbors, cancel).                               *)
(*                                                                         *)
(* The gossip service (iroh_gossip), the foreign callback and the tokio    *)
(* runtime are collaborators: the native subscribe and the native send     *)
(* succeed or fail nondeterministically, the producer appends events to    *)
(* the native stream, the callback returns Ok or Err, and every await is   *)
(* a point where other threads run.                                        *)
(***************************************************************************)
EXTENDS Integers, Sequences, FiniteSets, TLC

\* ------------------------------------------------------------------ bounds
\* Number of events the producer yields on one subscription's stream.
MaxEvents == 3

\* ------------------------------------------------------------- constants
\* gossip.rs:134  `topic.len() != 32`
TOPIC_LEN == 32

\* Subscription slots (one subscribe call each) and the foreign threads that
\* call into a Sender.
Subs == {1}
Callers == {1}

\* ------------------------------------------------------------ input sets
\* Topic lengths tried by subscribe: empty, one short, exact, one long.
TopicLens == {0, TOPIC_LEN - 1, TOPIC_LEN, TOPIC_LEN + 1}
TopicOfLen(n) == [i \in 1..n |-> 1]

\* Endpoint ids known to the model and their string form (EndpointId's
\* Display / FromStr pair, gossip.rs:141 and gossip.rs:171).
PeerIds == {1}
to_string(n) == IF n = 1 THEN "peer1" ELSE "peer2"
NoId == 0
\* `b.parse()` : Some id if the string is the string form of an id, else an error (NoId).
parse(str) ==
    IF \E n \in PeerIds : to_string(n) = str
    THEN CHOOSE n \in PeerIds : to_string(n) = str
    ELSE NoId

BootstrapStrings == {"peer1", "not-an-id"}
BootstrapLists ==
    { <<>>, <<"peer1">>, <<"not-an-id">>, <<"peer1", "not-an-id">>,
      <<"not-an-id", "peer1">> }

\* Variant of collect that stops looking after the first entry.
collect_first_only(bs) ==
    IF bs = <<>> THEN [ok |-> TRUE, ids |-> <<>>]
    ELSE IF parse(Head(bs)) = NoId THEN [ok |-> FALSE, ids |-> <<>>]
    ELSE [ok |-> TRUE, ids |-> <<parse(Head(bs))>>]

\* `.map(|b| b.parse()).collect::<Result<Vec<EndpointId>, _>>()` (gossip.rs:139-143):
\* the parsed list, or an error as soon as one entry fails.
RECURSIVE collect(_)
collect(bs) ==
    IF bs = <<>> THEN [ok |-> TRUE, ids |-> <<>>]
    ELSE LET id == parse(Head(bs)) IN
         IF id = NoId THEN [ok |-> FALSE, ids |-> <<>>]
         ELSE LET rest == collect(Tail(bs)) IN
              IF rest.ok THEN [ok |-> TRUE, ids |-> <<id>> \o rest.ids]
              ELSE rest

\* Items of the native stream: Some(Ok(Event::..)) and Some(Err(e)).
\* (iroh_gossip::api::Event, matched at gossip.rs:169-207)
Payloads == { <<104, 105>> }
ErrCodes == {7}
NoPayload == <<>>
Item(kind, peer, content, err) ==
    [kind |-> kind, peer |-> peer, content |-> content, err |-> err]
Items ==
    { Item("NeighborUp", n, NoPayload, 0) : n \in PeerIds } \cup
    { Item("NeighborDown", n, NoPayload, 0) : n \in PeerIds } \cup
    { Item("Received", n, c, 0) : n \in PeerIds, c \in Payloads } \cup
    { Item("Lagged", NoId, NoPayload, 0) } \cup
    { Item("Err", NoId, NoPayload, e) : e \in ErrCodes }
NoItem == Item("None", NoId, NoPayload, 0)

\* err.to_string() of a stream error (gossip.rs:198)
err_to_string(e) == IF e = 7 THEN "error 7" ELSE "error"

\* enum Message (gossip.rs:16-32) as built by the receiver task (gossip.rs:170-202).
Msg(type, str, content) == [type |-> type, str |-> str, content |-> content]
\* Variant of message that reports a departing neighbor as an arriving one.
message_down_as_up(item) ==
    CASE item.kind = "NeighborUp"   -> Msg("NeighborUp", to_string(item.peer), NoPayload)
      [] item.kind = "NeighborDown" -> Msg("NeighborUp", to_string(item.peer), NoPayload)
      [] item.kind = "Received"     -> Msg("Received", to_string(item.peer), item.content)
      [] item.kind = "Lagged"       -> Msg("Lagged", "", NoPayload)
      [] item.kind = "Err"          -> Msg("Error", err_to_string(item.err), NoPayload)

message(item) ==
    CASE item.kind = "NeighborUp"   -> Msg("NeighborUp", to_string(item.peer), NoPayload)
      [] item.kind = "NeighborDown" -> Msg("NeighborDown", to_string(item.peer), NoPayload)
      [] item.kind = "Received"     -> Msg("Received", to_string(item.peer), item.content)
      [] item.kind = "Lagged"       -> Msg("Lagged", "", NoPayload)
      [] item.kind = "Err"          -> Msg("Error", err_to_string(item.err), NoPayload)

\* Message::type (gossip.rs:45-53)
MessageTypes == {"NeighborUp", "NeighborDown", "Received", "Lagged", "Error"}
type(msg) == msg.type

\* The accessors of Message (gossip.rs:55-92): the payload of the named
\* variant, or a panic when another variant is active.
Returns(v) == [panic |-> FALSE, value |-> v]
Panics(text) == [panic |-> TRUE, value |-> text]
MessageContent(content, delivered_from) ==
    [content |-> content, delivered_from |-> delivered_from]

as_neighbor_up(msg) ==
    IF msg.type = "NeighborUp" THEN Returns(msg.str)
    ELSE Panics("not a NeighborUp message")

as_neighbor_down(msg) ==
    IF msg.type = "NeighborDown" THEN Returns(msg.str)
    ELSE Panics("not a NeighborDown message")

\* Variant of as_received that answers an empty record for another variant.
as_received_default(msg) ==
    IF msg.type = "Received" THEN Returns(MessageContent(msg.content, msg.str))
    ELSE Returns(MessageContent(NoPayload, ""))

as_received(msg) ==
    IF msg.type = "Received" THEN Returns(MessageContent(msg.content, msg.str))
    ELSE Panics("not a Received message")

as_error(msg) ==
    IF msg.type = "Error" THEN Returns(msg.str)
    ELSE Panics("not a Error message")

\* ------------------------------------------------------------------ node
\* Protocol tags of the built-in protocols (iroh_gossip::ALPN, iroh_blobs::ALPN,
\* iroh_docs::ALPN: node.rs:467, 471, 487) and the tags a caller may supply in
\* NodeOptions.protocols (node.rs:211); one of them equals a built-in tag.
GOSSIP_ALPN == "/iroh-gossip/1"
BLOBS_ALPN == "/iroh-bytes/4"
DOCS_ALPN == "/iroh-sync/1"
CustomTags == {"echo", "chat", DOCS_ALPN}

\* NodeOptions (node.rs:182-212). An Option is a record with `some`, and with
\* `value` when it is Some.
None == [some |-> FALSE]
Some(v) == [some |-> TRUE, value |-> v]
SECRET_KEY_LEN == 32
KeyOfLen(n) == [i \in 1..n |-> 7]
\* Address strings a caller may pass: an IPv4 socket address, an IPv6 socket
\* address and a string that is neither.
AddrStrings == {"127.0.0.1:0", "[::1]:0", "not-an-addr"}
\* `addr.parse()?` for bind_addr_v4 (node.rs:431-433): the string parses as a
\* SocketAddrV4, which an IPv6 socket address does not.
SocketAddrsV4 == {"127.0.0.1:0", "0.0.0.0:0"}
parse_addr_v4(str) == str \in SocketAddrsV4
\* `addr.parse()?` for bind_addr_v6 (node.rs:435-437): the string parses as a
\* SocketAddrV6, which an IPv4 socket address does not.
SocketAddrsV6 == {"[::1]:0", "[::]:0"}
parse_addr_v6(str) == str \in SocketAddrsV6
NodeOptionsSet ==
    [ gc_interval_millis : {None, Some(<<0>>), Some(<<5>>)},
      enable_docs : BOOLEAN,
      ipv4_addr : {None} \cup { Some(a) : a \in AddrStrings },
      ipv6_addr : {None} \cup { Some(a) : a \in AddrStrings },
      secret_key : {None, Some(KeyOfLen(SECRET_KEY_LEN - 1)), Some(KeyOfLen(SECRET_KEY_LEN))},
      protocols : {None} \cup { Some(ts) : ts \in SUBSET CustomTags } ]
\* impl Default for NodeOptions (node.rs:247-260)
DefaultNodeOptions ==
    [ gc_interval_millis |-> Some(<<0>>), enable_docs |-> FALSE, ipv4_addr |-> None,
      ipv6_addr |-> None, secret_key |-> None, protocols |-> None ]

\* The handler registered for a caller-supplied tag: the ProtocolWrapper around
\* the handler its creator returned (node.rs:499-500).
ProtocolWrapper(tag) == <<"wrapper", tag>>
\* The handler of a built-in protocol (node.rs:467, 471, 487).
BuiltIn(alpn) == <<"builtin", alpn>>
\* Every tag a registration or a connection may carry.
Tags == {GOSSIP_ALPN, BLOBS_ALPN} \cup CustomTags
NoRegistrations == [tag \in {} |-> <<>>]
\* router_builder.accept(alpn, handler): the registration map with alpn bound to
\* handler (node.rs:467, 471, 487, 500).
accept(registrations, alpn, handler) ==
    [tag \in DOMAIN registrations \cup {alpn} |->
        IF tag = alpn THEN handler ELSE registrations[tag]]

\* Variant of add_protocols that registers only one of the supplied protocols.
add_protocols_one(registrations, tags) ==
    IF tags = {} THEN registrations
    ELSE LET alpn == CHOOSE tag \in tags : TRUE IN
         accept(registrations, alpn, ProtocolWrapper(alpn))

\* node.rs:497-502: `for (alpn, protocol) in protocols { create; accept }`
RECURSIVE add_protocols(_, _)
add_protocols(registrations, tags) ==
    IF tags = {} THEN registrations
    ELSE LET alpn == CHOOSE tag \in tags : TRUE IN
         add_protocols(accept(registrations, alpn, ProtocolWrapper(alpn)), tags \ {alpn})

\* How often the shutdown of each handler was requested: none before the
\* router is spawned.
NoCounts == [tag \in {} |-> 0]
\* Connections a router sees and calls of Node::shutdown a caller makes.
MaxConns == 2
MaxShutdownCalls == 2

NoNode == [pc |-> "none", kind |-> "none", options |-> DefaultNodeOptions,
           endpoint |-> FALSE, gossip |-> FALSE, engine |-> FALSE,
           registrations |-> NoRegistrations, created |-> {}, docs |-> FALSE,
           router |-> "none", error |-> "none",
           conns |-> <<>>, shutdowns |-> NoCounts, foreign |-> NoCounts,
           shutting |-> "none", call |-> "idle", results |-> <<>>]

\* ------------------------------------------------------------------- lib
\* path_to_key and key_to_path (lib.rs:75-142). A string is the sequence of its
\* characters; paths are written over "/" and two letters, a prefix over two
\* other characters. Neither function returns Err on these inputs.
MaxPathLen == 4
MaxRootLen == 2
Sep == "/"
PathChars == {Sep, "a", "b"}
RootChars == {Sep, "a"}
Strings(chars, n) == UNION { [1..k -> chars] : k \in 0..n }
Prefixes == {None, Some(<<"p", ":">>)}
Ok(v) == [ok |-> TRUE, value |-> v]
Err(e) == [ok |-> FALSE, value |-> e]

\* String::into_bytes / str::from_utf8 on the characters used here; 0 is the
\* null byte.
into_bytes(str) ==
    [i \in 1..Len(str) |->
        CASE str[i] = "/" -> 47 [] str[i] = "a" -> 97 [] str[i] = "b" -> 98
          [] str[i] = "p" -> 112 [] str[i] = ":" -> 58]
from_utf8(bytes) ==
    [i \in 1..Len(bytes) |->
        CASE bytes[i] = 47 -> "/" [] bytes[i] = 97 -> "a" [] bytes[i] = 98 -> "b"
          [] bytes[i] = 112 -> "p" [] bytes[i] = 58 -> ":" [] bytes[i] = 0 -> "NUL"]

\* Length of the run of non-separator characters at the head of str.
RECURSIVE component_len(_)
component_len(str) ==
    IF str = <<>> \/ Head(str) = Sep THEN 0 ELSE 1 + component_len(Tail(str))

\* The normal components of str: its maximal runs without a separator.
RECURSIVE normal_components(_)
normal_components(str) ==
    IF str = <<>> THEN <<>>
    ELSE IF Head(str) = Sep THEN normal_components(Tail(str))
    ELSE LET n == component_len(str) IN
         <<SubSeq(str, 1, n)>> \o normal_components(SubSeq(str, n + 1, Len(str)))

\* Path::components: RootDir (written <<Sep>>) when the path starts with a
\* separator, then the normal components; repeated and trailing separators
\* yield no component.
components(str) ==
    (IF str # <<>> /\ Head(str) = Sep THEN << <<Sep>> >> ELSE <<>>) \o normal_components(str)

\* Path::starts_with: base's components are a prefix of path's.
starts_with(path, base) ==
    LET pc == components(path)
        bc == components(base)
    IN  Len(bc) <= Len(pc) /\ SubSeq(pc, 1, Len(bc)) = bc

\* What is left of str once Components::next has yielded k normal components.
RECURSIVE after_components(_, _)
after_components(str, k) ==
    IF k = 0 \/ str = <<>> THEN str
    ELSE IF Head(str) = Sep THEN after_components(Tail(str), k)
    ELSE LET n == component_len(str) IN
         after_components(SubSeq(str, n + 1, Len(str)), k - 1)

RECURSIVE trim_start_matches(_)
trim_start_matches(str) ==
    IF str # <<>> /\ Head(str) = Sep THEN trim_start_matches(Tail(str)) ELSE str

RECURSIVE trim_right(_)
trim_right(str) ==
    IF str # <<>> /\ str[Len(str)] = Sep THEN trim_right(SubSeq(str, 1, Len(str) - 1))
    ELSE str

\* Path::strip_prefix for a non-empty base: Err unless path starts with base,
\* else Components::as_path of what follows base's components, which trims the
\* separators at both ends and keeps the text in between as written.
strip_prefix(path, base) ==
    IF ~starts_with(path, base) THEN Err("StripPrefixError")
    ELSE LET rest == IF Head(base) = Sep THEN Tail(path) ELSE path IN
         Ok(trim_right(trim_start_matches(
                after_components(rest, Len(normal_components(base))))))

\* str::strip_prefix(prefix).unwrap_or(str) (lib.rs:92)
strip_prefix_or(str, prefix) ==
    IF Len(prefix) <= Len(str) /\ SubSeq(str, 1, Len(prefix)) = prefix
    THEN SubSeq(str, Len(prefix) + 1, Len(str))
    ELSE str

\* PathBuf::join (PathBuf::push): an absolute path replaces base; otherwise a
\* separator is added unless base is empty or ends with one, then path.
join(base, path) ==
    IF path # <<>> /\ Head(path) = Sep THEN path
    ELSE IF base # <<>> /\ base[Len(base)] # Sep THEN base \o <<Sep>> \o path
    ELSE base \o path

\* Variant of key_to_path that keeps the trailing null byte.
key_to_path_keeps_null(key, prefix, root) ==
    LET key_str == from_utf8(key)
        path_str == IF prefix.some THEN strip_prefix_or(key_str, prefix.value) ELSE key_str
    IN  Ok(IF root.some THEN join(root.value, trim_start_matches(path_str)) ELSE path_str)

\* key_to_path (lib.rs:75-108)
key_to_path(key, prefix, root) ==
    LET k == IF key # <<>> /\ key[Len(key)] = 0 THEN SubSeq(key, 1, Len(key) - 1) ELSE key
        key_str == from_utf8(k)
        path_str == IF prefix.some THEN strip_prefix_or(key_str, prefix.value) ELSE key_str
    IN  Ok(IF root.some THEN join(root.value, trim_start_matches(path_str)) ELSE path_str)

\* path_to_key (lib.rs:114-142)
path_to_key(path, prefix, root) ==
    LET stripped == IF root.some THEN strip_prefix(path, root.value) ELSE Ok(path)
        path_str == IF stripped.ok THEN stripped.value ELSE path
        key_str == IF prefix.some THEN prefix.value \o path_str ELSE path_str
    IN  Ok(Append(into_bytes(key_str), 0))

\* One conversion: its inputs, the key and the path converted back.
NoConv == [pc |-> "none", path |-> <<>>, prefix |-> None, root |-> None,
           key |-> <<>>, got |-> <<>>]

\* ----------------------------------------------------------------- state
VARIABLES
    sub,          \* per subscribe call: its position, inputs and result
    cancel_token, \* CancellationToken of the subscription: TRUE once cancelled
    stream,       \* every item the producer has yielded on the native stream, in order
    ended,        \* the producer has closed the native stream
    receiver,     \* number of items receiver.next() has taken from the stream
    task,         \* the spawned receiver task: its position and the item it holds
    on_message,   \* the callback's invocations in order, how many have returned,
                  \* whether one returned Err, how many began after a cancel() returned Ok
    sender,       \* owner of the Sender's Mutex (0: free)
    caller,       \* foreign threads calling cancel / broadcast / broadcast_neighbors
    cancelled_ok, \* some cancel() call on the Sender has returned Ok
    node,         \* the Iroh node: its construction, its options and its router
    conv          \* a path_to_key / key_to_path round trip: its inputs and results

\* The state of the gossip bridge and the state of the node.
gossip_vars == <<sub, cancel_token, stream, ended, receiver, task, on_message, sender,
                 caller, cancelled_ok>>
node_vars == <<node>>
lib_vars == <<conv>>
vars == <<sub, cancel_token, stream, ended, receiver, task, on_message, sender,
          caller, cancelled_ok, node, conv>>

IdleCaller == [op |-> "none", sub |-> 0, pc |-> "idle", result |-> "none",
               after_cancel |-> FALSE]

Init ==
    /\ sub = [s \in Subs |-> [pc |-> "idle", topic |-> <<>>, bootstrap |-> <<>>,
                              result |-> "none", native_calls |-> 0,
                              dropped |-> FALSE, at_drop |-> 0]]
    /\ cancel_token = [s \in Subs |-> FALSE]
    /\ stream = [s \in Subs |-> <<>>]
    /\ ended = [s \in Subs |-> FALSE]
    /\ receiver = [s \in Subs |-> 0]
    /\ task = [s \in Subs |-> [pc |-> "none", item |-> NoItem, stop |-> "none"]]
    /\ on_message = [s \in Subs |-> [calls |-> <<>>, returned |-> 0, erred |-> FALSE,
                                     late |-> 0]]
    /\ sender = [s \in Subs |-> 0]
    /\ caller = [c \in Callers |-> IdleCaller]
    /\ cancelled_ok = [s \in Subs |-> FALSE]
    /\ node = NoNode
    /\ conv = NoConv

\* ------------------------------------------------------- Gossip::subscribe
\* Variant of subscribe that only rejects topics that are too short.
subscribe_short_only(s, topic, bootstrap) ==
    /\ sub[s].pc = "idle"
    /\ LET call == [sub[s] EXCEPT !.topic = topic, !.bootstrap = bootstrap] IN
       IF Len(topic) < TOPIC_LEN
       THEN sub' = [sub EXCEPT ![s] = [call EXCEPT !.pc = "returned", !.result = "err_topic"]]
       ELSE IF ~collect(bootstrap).ok
       THEN sub' = [sub EXCEPT ![s] = [call EXCEPT !.pc = "returned", !.result = "err_bootstrap"]]
       ELSE sub' = [sub EXCEPT ![s] = [call EXCEPT !.pc = "native",
                                                   !.native_calls = @ + 1]]
    /\ UNCHANGED <<cancel_token, stream, ended, receiver, task, on_message, sender,
                   caller, cancelled_ok, node_vars, lib_vars>>

\* gossip.rs:128-152: validate the topic, parse the bootstrap list, then call
\* the gossip service's subscribe and await it.
subscribe(s, topic, bootstrap) ==
    /\ sub[s].pc = "idle"
    /\ LET call == [sub[s] EXCEPT !.topic = topic, !.bootstrap = bootstrap] IN
       IF Len(topic) # TOPIC_LEN
       THEN sub' = [sub EXCEPT ![s] = [call EXCEPT !.pc = "returned", !.result = "err_topic"]]
       ELSE IF ~collect(bootstrap).ok
       THEN sub' = [sub EXCEPT ![s] = [call EXCEPT !.pc = "returned", !.result = "err_bootstrap"]]
       ELSE sub' = [sub EXCEPT ![s] = [call EXCEPT !.pc = "native",
                                                   !.native_calls = @ + 1]]
    /\ UNCHANGED <<cancel_token, stream, ended, receiver, task, on_message, sender,
                   caller, cancelled_ok, node_vars, lib_vars>>

\* Variant of subscribe_native that spawns the receiver task before it looks
\* at the result of the native call.
subscribe_native_spawns_first(s, ok) ==
    /\ sub[s].pc = "native"
    /\ sub' = [sub EXCEPT ![s].pc = "returned",
                          ![s].result = IF ok THEN "ok" ELSE "err_native"]
    /\ cancel_token' = [cancel_token EXCEPT ![s] = FALSE]
    /\ task' = [task EXCEPT ![s].pc = "select"]
    /\ UNCHANGED <<stream, ended, receiver, on_message, sender, caller, cancelled_ok, node_vars, lib_vars>>

\* Variant of subscribe_native that resolves once a neighbor has joined.
subscribe_native_joined(s, ok) ==
    /\ sub[s].pc = "native"
    /\ ok => \E i \in 1..Len(stream[s]) : stream[s][i].kind = "NeighborUp"
    /\ IF ok
       THEN /\ sub' = [sub EXCEPT ![s].pc = "returned", ![s].result = "ok"]
            /\ cancel_token' = [cancel_token EXCEPT ![s] = FALSE]
            /\ task' = [task EXCEPT ![s].pc = "select"]
       ELSE /\ sub' = [sub EXCEPT ![s].pc = "returned", ![s].result = "err_native"]
            /\ UNCHANGED <<cancel_token, task>>
    /\ UNCHANGED <<stream, ended, receiver, on_message, sender, caller, cancelled_ok, node_vars, lib_vars>>

\* gossip.rs:148-218: the native subscribe resolves; on failure the error is
\* returned, on success the token is created, the receiver task is spawned and
\* the Sender is returned.
subscribe_native(s, ok) ==
    /\ sub[s].pc = "native"
    /\ IF ok
       THEN /\ sub' = [sub EXCEPT ![s].pc = "returned", ![s].result = "ok"]
            /\ cancel_token' = [cancel_token EXCEPT ![s] = FALSE]
            /\ task' = [task EXCEPT ![s].pc = "select"]
       ELSE /\ sub' = [sub EXCEPT ![s].pc = "returned", ![s].result = "err_native"]
            /\ UNCHANGED <<cancel_token, task>>
    /\ UNCHANGED <<stream, ended, receiver, on_message, sender, caller, cancelled_ok, node_vars, lib_vars>>

\* ------------------------------------------------------------ the producer
\* The gossip service yields the next item on a subscription's stream. The
\* stream lives as long as the receiver, which the task owns (gossip.rs:158,
\* `async move`) and drops when it ends.
produce(s, item) ==
    /\ sub[s].result = "ok"
    /\ task[s].pc # "done"
    /\ ~ended[s]
    /\ Len(stream[s]) < MaxEvents
    /\ stream' = [stream EXCEPT ![s] = Append(@, item)]
    /\ UNCHANGED <<sub, cancel_token, ended, receiver, task, on_message, sender,
                   caller, cancelled_ok, node_vars, lib_vars>>

\* The gossip service closes the stream: receiver.next() yields None once drained.
end_stream(s) ==
    /\ sub[s].result = "ok"
    /\ task[s].pc # "done"
    /\ ~ended[s]
    /\ ended' = [ended EXCEPT ![s] = TRUE]
    /\ UNCHANGED <<sub, cancel_token, stream, receiver, task, on_message, sender,
                   caller, cancelled_ok, node_vars, lib_vars>>

\* ------------------------------------------------------- the receiver task
\* Variant of select_cancelled whose loop never looks at the token.
select_cancelled_ignored(s) ==
    /\ task[s].pc = "select"
    /\ task' = [task EXCEPT ![s].pc = "next"]
    /\ UNCHANGED <<sub, cancel_token, stream, ended, receiver, on_message, sender,
                   caller, cancelled_ok, node_vars, lib_vars>>

\* Variant of select_cancelled without `biased;`: the select may poll the stream
\* first, so a cancelled token does not always win.
select_cancelled_unbiased(s) ==
    /\ task[s].pc = "select"
    /\ \/ /\ cancel_token[s]
          /\ task' = [task EXCEPT ![s].pc = "done", ![s].stop = "cancelled"]
       \/ task' = [task EXCEPT ![s].pc = "next"]
    /\ UNCHANGED <<sub, cancel_token, stream, ended, receiver, on_message, sender,
                   caller, cancelled_ok, node_vars, lib_vars>>

\* gossip.rs:161-167: `biased;` polls cancel.cancelled() first; when it is
\* ready the loop breaks, otherwise the select goes on to poll the stream.
select_cancelled(s) ==
    /\ task[s].pc = "select"
    /\ IF cancel_token[s]
       THEN task' = [task EXCEPT ![s].pc = "done", ![s].stop = "cancelled"]
       ELSE task' = [task EXCEPT ![s].pc = "next"]
    /\ UNCHANGED <<sub, cancel_token, stream, ended, receiver, on_message, sender,
                   caller, cancelled_ok, node_vars, lib_vars>>

\* Variant of select_next that keeps only the newest buffered item.
select_next_latest(s) ==
    /\ task[s].pc = "next"
    /\ IF receiver[s] < Len(stream[s])
       THEN /\ receiver' = [receiver EXCEPT ![s] = Len(stream[s])]
            /\ task' = [task EXCEPT ![s].pc = "event",
                                    ![s].item = stream[s][Len(stream[s])]]
       ELSE /\ UNCHANGED receiver
            /\ IF ended[s]
               THEN task' = [task EXCEPT ![s].pc = "done", ![s].stop = "ended"]
               ELSE task' = [task EXCEPT ![s].pc = "parked"]
    /\ UNCHANGED <<sub, cancel_token, stream, ended, on_message, sender, caller,
                   cancelled_ok, node_vars, lib_vars>>

\* Variant of select_next that reports the end of the stream to the callback.
select_next_reports_end(s) ==
    /\ task[s].pc = "next"
    /\ IF receiver[s] < Len(stream[s])
       THEN /\ receiver' = [receiver EXCEPT ![s] = @ + 1]
            /\ task' = [task EXCEPT ![s].pc = "event",
                                    ![s].item = stream[s][receiver[s] + 1]]
            /\ UNCHANGED on_message
       ELSE /\ UNCHANGED receiver
            /\ IF ended[s]
               THEN /\ task' = [task EXCEPT ![s].pc = "done", ![s].stop = "ended"]
                    /\ on_message' = [on_message EXCEPT
                           ![s].calls = Append(@, Msg("Error", "stream ended", NoPayload)),
                           ![s].returned = @ + 1]
               ELSE /\ task' = [task EXCEPT ![s].pc = "parked"]
                    /\ UNCHANGED on_message
    /\ UNCHANGED <<sub, cancel_token, stream, ended, sender, caller, cancelled_ok, node_vars, lib_vars>>

\* gossip.rs:168, 203-206: poll receiver.next(): an item is taken, or the stream
\* has ended (None: break), or both branches are pending and the task is parked.
select_next(s) ==
    /\ task[s].pc = "next"
    /\ IF receiver[s] < Len(stream[s])
       THEN /\ receiver' = [receiver EXCEPT ![s] = @ + 1]
            /\ task' = [task EXCEPT ![s].pc = "event",
                                    ![s].item = stream[s][receiver[s] + 1]]
       ELSE /\ UNCHANGED receiver
            /\ IF ended[s]
               THEN task' = [task EXCEPT ![s].pc = "done", ![s].stop = "ended"]
               ELSE task' = [task EXCEPT ![s].pc = "parked"]
    /\ UNCHANGED <<sub, cancel_token, stream, ended, on_message, sender, caller,
                   cancelled_ok, node_vars, lib_vars>>

\* Variant of wake in which only the stream wakes the parked task.
wake_stream_only(s) ==
    /\ task[s].pc = "parked"
    /\ receiver[s] < Len(stream[s]) \/ ended[s]
    /\ task' = [task EXCEPT ![s].pc = "select"]
    /\ UNCHANGED <<sub, cancel_token, stream, ended, receiver, on_message, sender,
                   caller, cancelled_ok, node_vars, lib_vars>>

\* The parked task is woken by the token or by the stream and evaluates the
\* select again from its first branch.
wake(s) ==
    /\ task[s].pc = "parked"
    /\ cancel_token[s] \/ receiver[s] < Len(stream[s]) \/ ended[s]
    /\ task' = [task EXCEPT ![s].pc = "select"]
    /\ UNCHANGED <<sub, cancel_token, stream, ended, receiver, on_message, sender,
                   caller, cancelled_ok, node_vars, lib_vars>>

\* Variant of invoke_callback that starts the callback without awaiting it.
invoke_callback_detached(s) ==
    /\ task[s].pc = "event"
    /\ on_message' = [on_message EXCEPT
           ![s].calls = Append(@, message(task[s].item)),
           ![s].late = IF cancelled_ok[s] THEN @ + 1 ELSE @]
    /\ task' = [task EXCEPT ![s].pc = "select", ![s].item = NoItem]
    /\ UNCHANGED <<sub, cancel_token, stream, ended, receiver, sender, caller,
                   cancelled_ok, node_vars, lib_vars>>

\* Variant of invoke_callback that hands a transport error to the callback of
\* every subscription.
invoke_callback_fanout(s) ==
    /\ task[s].pc = "event"
    /\ on_message' = [t \in DOMAIN on_message |->
           IF t = s
           THEN [on_message[t] EXCEPT
                    !.calls = Append(@, message(task[s].item)),
                    !.late = IF cancelled_ok[s] THEN @ + 1 ELSE @]
           ELSE IF task[s].item.kind = "Err"
           THEN [on_message[t] EXCEPT !.calls = Append(@, message(task[s].item)),
                                      !.returned = @ + 1]
           ELSE on_message[t]]
    /\ task' = [task EXCEPT ![s].pc = "callback"]
    /\ UNCHANGED <<sub, cancel_token, stream, ended, receiver, sender, caller,
                   cancelled_ok, node_vars, lib_vars>>

\* Variant of invoke_callback that runs one callback at a time over all
\* subscriptions.
invoke_callback_serialized(s) ==
    /\ task[s].pc = "event"
    /\ \A t \in DOMAIN task : task[t].pc # "callback"
    /\ on_message' = [on_message EXCEPT
           ![s].calls = Append(@, message(task[s].item)),
           ![s].late = IF cancelled_ok[s] THEN @ + 1 ELSE @]
    /\ task' = [task EXCEPT ![s].pc = "callback"]
    /\ UNCHANGED <<sub, cancel_token, stream, ended, receiver, sender, caller,
                   cancelled_ok, node_vars, lib_vars>>

\* gossip.rs:170-202: build the Message of the item and invoke the callback.
invoke_callback(s) ==
    /\ task[s].pc = "event"
    /\ on_message' = [on_message EXCEPT
           ![s].calls = Append(@, message(task[s].item)),
           ![s].late = IF cancelled_ok[s] THEN @ + 1 ELSE @]
    /\ task' = [task EXCEPT ![s].pc = "callback"]
    /\ UNCHANGED <<sub, cancel_token, stream, ended, receiver, sender, caller,
                   cancelled_ok, node_vars, lib_vars>>

\* Variant of callback_returns that propagates a callback error out of the loop.
callback_returns_propagates(s, ok) ==
    /\ task[s].pc = "callback"
    /\ on_message' = [on_message EXCEPT
           ![s].returned = @ + 1,
           ![s].erred = @ \/ ~ok]
    /\ IF ok
       THEN task' = [task EXCEPT ![s].pc = "select", ![s].item = NoItem]
       ELSE task' = [task EXCEPT ![s].pc = "done", ![s].item = NoItem,
                                 ![s].stop = "callback_error"]
    /\ UNCHANGED <<sub, cancel_token, stream, ended, receiver, sender, caller,
                   cancelled_ok, node_vars, lib_vars>>

\* Variant of callback_returns that ends the loop after an Error message.
callback_returns_error_terminal(s, ok) ==
    /\ task[s].pc = "callback"
    /\ on_message' = [on_message EXCEPT
           ![s].returned = @ + 1,
           ![s].erred = @ \/ ~ok]
    /\ IF task[s].item.kind = "Err"
       THEN task' = [task EXCEPT ![s].pc = "done", ![s].item = NoItem,
                                 ![s].stop = "error"]
       ELSE task' = [task EXCEPT ![s].pc = "select", ![s].item = NoItem]
    /\ UNCHANGED <<sub, cancel_token, stream, ended, receiver, sender, caller,
                   cancelled_ok, node_vars, lib_vars>>

\* gossip.rs:172-174 (and the four like it): the callback returns; an error is
\* logged with warn! and the loop goes on to its next iteration.
callback_returns(s, ok) ==
    /\ task[s].pc = "callback"
    /\ on_message' = [on_message EXCEPT
           ![s].returned = @ + 1,
           ![s].erred = @ \/ ~ok]
    /\ task' = [task EXCEPT ![s].pc = "select", ![s].item = NoItem]
    /\ UNCHANGED <<sub, cancel_token, stream, ended, receiver, sender, caller,
                   cancelled_ok, node_vars, lib_vars>>

\* ------------------------------------------------------------------ Sender
\* A foreign thread enters one of the Sender's methods.
call(c, s, op) ==
    /\ caller[c].pc = "idle"
    /\ sub[s].result = "ok"
    /\ ~sub[s].dropped
    /\ caller' = [caller EXCEPT ![c] =
           [op |-> op, sub |-> s, result |-> "none",
            pc |-> IF op = "cancel" THEN "is_cancelled" ELSE "lock",
            after_cancel |-> cancelled_ok[s]]]
    /\ UNCHANGED <<sub, cancel_token, stream, ended, receiver, task, on_message,
                   sender, cancelled_ok, node_vars, lib_vars>>

\* Variant of cancel_is_cancelled that also fails once the receiver task has
\* stopped.
cancel_is_cancelled_or_stopped(c) ==
    /\ caller[c].pc = "is_cancelled"
    /\ IF cancel_token[caller[c].sub] \/ task[caller[c].sub].pc = "done"
       THEN caller' = [caller EXCEPT ![c].pc = "return", ![c].result = "err"]
       ELSE caller' = [caller EXCEPT ![c].pc = "cancel"]
    /\ UNCHANGED <<sub, cancel_token, stream, ended, receiver, task, on_message,
                   sender, cancelled_ok, node_vars, lib_vars>>

\* Variant of cancel_is_cancelled without the check.
cancel_unchecked(c) ==
    /\ caller[c].pc = "is_cancelled"
    /\ caller' = [caller EXCEPT ![c].pc = "cancel"]
    /\ UNCHANGED <<sub, cancel_token, stream, ended, receiver, task, on_message,
                   sender, cancelled_ok, node_vars, lib_vars>>

\* Variant of cancel_is_cancelled that first takes the send lock.
cancel_is_cancelled_locked(c) ==
    /\ caller[c].pc = "is_cancelled"
    /\ sender[caller[c].sub] = 0
    /\ IF cancel_token[caller[c].sub]
       THEN caller' = [caller EXCEPT ![c].pc = "return", ![c].result = "err"]
       ELSE caller' = [caller EXCEPT ![c].pc = "cancel"]
    /\ UNCHANGED <<sub, cancel_token, stream, ended, receiver, task, on_message,
                   sender, cancelled_ok, node_vars, lib_vars>>

\* gossip.rs:258-260: `if self.cancel.is_cancelled() { return Err("already closed") }`
cancel_is_cancelled(c) ==
    /\ caller[c].pc = "is_cancelled"
    /\ IF cancel_token[caller[c].sub]
       THEN caller' = [caller EXCEPT ![c].pc = "return", ![c].result = "err"]
       ELSE caller' = [caller EXCEPT ![c].pc = "cancel"]
    /\ UNCHANGED <<sub, cancel_token, stream, ended, receiver, task, on_message,
                   sender, cancelled_ok, node_vars, lib_vars>>

\* Variant of cancel that also aborts the receiver task where it stands.
cancel_aborts(c) ==
    /\ caller[c].pc = "cancel"
    /\ cancel_token' = [cancel_token EXCEPT ![caller[c].sub] = TRUE]
    /\ task' = [task EXCEPT ![caller[c].sub].pc = "done",
                            ![caller[c].sub].stop = "cancelled"]
    /\ caller' = [caller EXCEPT ![c].pc = "return", ![c].result = "ok"]
    /\ UNCHANGED <<sub, stream, ended, receiver, on_message, sender,
                   cancelled_ok, node_vars, lib_vars>>

\* Variant of cancel in which the subscriptions share one token.
cancel_shared(c) ==
    /\ caller[c].pc = "cancel"
    /\ cancel_token' = [s \in DOMAIN cancel_token |-> TRUE]
    /\ caller' = [caller EXCEPT ![c].pc = "return", ![c].result = "ok"]
    /\ UNCHANGED <<sub, stream, ended, receiver, task, on_message, sender,
                   cancelled_ok, node_vars, lib_vars>>

\* gossip.rs:261-262: `self.cancel.cancel(); Ok(())`
cancel(c) ==
    /\ caller[c].pc = "cancel"
    /\ cancel_token' = [cancel_token EXCEPT ![caller[c].sub] = TRUE]
    /\ caller' = [caller EXCEPT ![c].pc = "return", ![c].result = "ok"]
    /\ UNCHANGED <<sub, stream, ended, receiver, task, on_message, sender,
                   cancelled_ok, node_vars, lib_vars>>

\* gossip.rs:234-236, 246-248: `self.sender.lock().await`
lock(c) ==
    /\ caller[c].pc = "lock"
    /\ sender[caller[c].sub] = 0
    /\ sender' = [sender EXCEPT ![caller[c].sub] = c]
    /\ caller' = [caller EXCEPT ![c].pc = "send"]
    /\ UNCHANGED <<sub, cancel_token, stream, ended, receiver, task, on_message,
                   cancelled_ok, node_vars, lib_vars>>

\* Variant of native_send in which a failed send closes the subscription.
native_send_failure_cancels(c, op, ok) ==
    /\ caller[c].pc = "send"
    /\ caller[c].op = op
    /\ sender' = [sender EXCEPT ![caller[c].sub] = 0]
    /\ caller' = [caller EXCEPT ![c].pc = "return",
                                ![c].result = IF ok THEN "ok" ELSE "err"]
    /\ cancel_token' = [cancel_token EXCEPT ![caller[c].sub] = @ \/ ~ok]
    /\ UNCHANGED <<sub, stream, ended, receiver, task, on_message,
                   cancelled_ok, node_vars, lib_vars>>

\* The native send of the payload resolves, the guard is dropped and the result
\* is mapped: gossip.rs:237-240 and gossip.rs:249-252.
native_send(c, op, ok) ==
    /\ caller[c].pc = "send"
    /\ caller[c].op = op
    /\ sender' = [sender EXCEPT ![caller[c].sub] = 0]
    /\ caller' = [caller EXCEPT ![c].pc = "return",
                                ![c].result = IF ok THEN "ok" ELSE "err"]
    /\ UNCHANGED <<sub, cancel_token, stream, ended, receiver, task, on_message,
                   cancelled_ok, node_vars, lib_vars>>

broadcast(c, ok) == native_send(c, "broadcast", ok)

broadcast_neighbors(c, ok) == native_send(c, "broadcast_neighbors", ok)

\* The method returns its result to the foreign thread.
return(c) ==
    /\ caller[c].pc = "return"
    /\ cancelled_ok' =
           IF caller[c].op = "cancel" /\ caller[c].result = "ok"
           THEN [cancelled_ok EXCEPT ![caller[c].sub] = TRUE]
           ELSE cancelled_ok
    /\ caller' = [caller EXCEPT ![c] = IdleCaller]
    /\ UNCHANGED <<sub, cancel_token, stream, ended, receiver, task, on_message,
                   sender, node_vars, lib_vars>>

\* Variant of drop_sender in which releasing the Sender cancels its token.
drop_sender_cancels(s) ==
    /\ sub[s].result = "ok"
    /\ ~sub[s].dropped
    /\ \A c \in DOMAIN caller : caller[c].pc = "idle"
    /\ sub' = [sub EXCEPT ![s].dropped = TRUE, ![s].at_drop = Len(stream[s])]
    /\ cancel_token' = [cancel_token EXCEPT ![s] = TRUE]
    /\ UNCHANGED <<stream, ended, receiver, task, on_message, sender, caller,
                   cancelled_ok, node_vars, lib_vars>>

\* The foreign side releases its last reference to the Sender while no method
\* runs on it. Sender (gossip.rs:224-227) has no Drop impl: its fields are
\* dropped, and dropping a CancellationToken handle does not cancel the token,
\* whose clone the task holds (gossip.rs:157). at_drop records how many items
\* the stream had yielded by then.
drop_sender(s) ==
    /\ sub[s].result = "ok"
    /\ ~sub[s].dropped
    /\ \A c \in DOMAIN caller : caller[c].pc = "idle"
    /\ sub' = [sub EXCEPT ![s].dropped = TRUE, ![s].at_drop = Len(stream[s])]
    /\ UNCHANGED <<cancel_token, stream, ended, receiver, task, on_message, sender,
                   caller, cancelled_ok, node_vars, lib_vars>>

\* -------------------------------------------------------------------- Iroh
\* Every step of the node is a relation between the node before (n) and the
\* node after (m); the action of the same name applies it to the variable.

\* Variant of fail in which the services started so far outlive the error.
fail_keeps_services(n, error) ==
    [n EXCEPT !.pc = "failed", !.error = error]

\* `?` in the constructors and in apply_options (node.rs:331, 344, 350, 432,
\* 436, 454, 458, 485): the error is returned and the locals of the function,
\* the endpoint, the gossip service and the router builder with its
\* registrations among them, are dropped.
fail(n, error) ==
    [n EXCEPT !.pc = "failed", !.error = error, !.endpoint = FALSE,
              !.gossip = FALSE, !.engine = FALSE, !.docs = FALSE,
              !.registrations = NoRegistrations, !.created = {}]

\* Variant of with_options_on that hands the secret key to the builder without
\* checking its length.
with_options_on_any_key(n, m, kind, options, store_ok) ==
    /\ n.pc = "none"
    /\ LET o == [n EXCEPT !.kind = kind, !.options = options] IN
       IF kind = "persistent" /\ ~store_ok
       THEN m = fail(o, "store")
       ELSE IF options.ipv4_addr.some /\ ~parse_addr_v4(options.ipv4_addr.value)
       THEN m = fail(o, "ipv4_addr")
       ELSE IF options.ipv6_addr.some /\ ~parse_addr_v6(options.ipv6_addr.value)
       THEN m = fail(o, "ipv6_addr")
       ELSE m = [o EXCEPT !.pc = "bind"]

\* Variant of with_options_on in which a positive gc interval needs the
\* persistent store.
with_options_on_gc(n, m, kind, options, store_ok) ==
    /\ n.pc = "none"
    /\ LET o == [n EXCEPT !.kind = kind, !.options = options] IN
       IF kind = "persistent" /\ ~store_ok
       THEN m = fail(o, "store")
       ELSE IF options.gc_interval_millis.some
               /\ options.gc_interval_millis.value # <<0>> /\ kind = "memory"
       THEN m = fail(o, "gc")
       ELSE IF options.ipv4_addr.some /\ ~parse_addr_v4(options.ipv4_addr.value)
       THEN m = fail(o, "ipv4_addr")
       ELSE IF options.ipv6_addr.some /\ ~parse_addr_v6(options.ipv6_addr.value)
       THEN m = fail(o, "ipv6_addr")
       ELSE IF options.secret_key.some /\ Len(options.secret_key.value) # SECRET_KEY_LEN
       THEN m = fail(o, "secret_key")
       ELSE m = [o EXCEPT !.pc = "bind"]

\* Iroh::memory_with_options / Iroh::persistent_with_options up to the bind
\* (node.rs:322-353, 367-388, 406-458). The persistent stores may fail to load;
\* apply_options computes a gc period it never uses (node.rs:418-427), parses
\* the addresses and the secret key and returns the first error; otherwise the
\* endpoint starts to bind.
with_options_on(n, m, kind, options, store_ok) ==
    /\ n.pc = "none"
    /\ LET o == [n EXCEPT !.kind = kind, !.options = options] IN
       IF kind = "persistent" /\ ~store_ok
       THEN m = fail(o, "store")
       ELSE IF options.ipv4_addr.some /\ ~parse_addr_v4(options.ipv4_addr.value)
       THEN m = fail(o, "ipv4_addr")
       ELSE IF options.ipv6_addr.some /\ ~parse_addr_v6(options.ipv6_addr.value)
       THEN m = fail(o, "ipv6_addr")
       ELSE IF options.secret_key.some /\ Len(options.secret_key.value) # SECRET_KEY_LEN
       THEN m = fail(o, "secret_key")
       ELSE m = [o EXCEPT !.pc = "bind"]

with_options(kind, options, store_ok) ==
    /\ with_options_on(node, node', kind, options, store_ok)
    /\ UNCHANGED <<gossip_vars, lib_vars>>

\* node.rs:497-504 and node.rs:354, 389: the caller-supplied protocols are
\* created and registered, apply_options returns and the router is spawned
\* with the registrations made so far; no handler has been shut down yet.
finish(n) ==
    LET tags == IF n.options.protocols.some THEN n.options.protocols.value ELSE {}
        registrations == add_protocols(n.registrations, tags) IN
    [n EXCEPT !.registrations = registrations,
              !.created = tags,
              !.shutdowns = [tag \in DOMAIN registrations |-> 0],
              !.foreign = [tag \in tags |-> 0],
              !.router = "running",
              !.pc = "running"]

\* Variant of bind_on that registers the docs tag whether or not docs is
\* enabled.
bind_on_docs_always(n, m, ok) ==
    /\ n.pc = "bind"
    /\ IF ~ok
       THEN m = fail(n, "bind")
       ELSE LET o == [n EXCEPT
                        !.endpoint = TRUE,
                        !.gossip = TRUE,
                        !.registrations =
                            accept(accept(accept(@, GOSSIP_ALPN, BuiltIn(GOSSIP_ALPN)),
                                          BLOBS_ALPN, BuiltIn(BLOBS_ALPN)),
                                   DOCS_ALPN, BuiltIn(DOCS_ALPN))] IN
            IF o.options.enable_docs
            THEN m = [o EXCEPT !.pc = "engine"]
            ELSE m = finish(o)

\* node.rs:458-492: `builder.bind().await?`, then gossip is spawned and the
\* gossip and blobs protocols are registered; with enable_docs the docs engine
\* is spawned next, otherwise construction finishes.
bind_on(n, m, ok) ==
    /\ n.pc = "bind"
    /\ IF ~ok
       THEN m = fail(n, "bind")
       ELSE LET o == [n EXCEPT
                        !.endpoint = TRUE,
                        !.gossip = TRUE,
                        !.registrations =
                            accept(accept(@, GOSSIP_ALPN, BuiltIn(GOSSIP_ALPN)),
                                   BLOBS_ALPN, BuiltIn(BLOBS_ALPN))] IN
            IF o.options.enable_docs
            THEN m = [o EXCEPT !.pc = "engine"]
            ELSE m = finish(o)

bind(ok) ==
    /\ bind_on(node, node', ok)
    /\ UNCHANGED <<gossip_vars, lib_vars>>

\* node.rs:475-489: `Engine::spawn(..).await?`, then the docs protocol is
\* registered and its api kept.
engine_spawn_on(n, m, ok) ==
    /\ n.pc = "engine"
    /\ IF ~ok
       THEN m = fail(n, "engine")
       ELSE m = finish([n EXCEPT
                        !.engine = TRUE,
                        !.docs = TRUE,
                        !.registrations = accept(@, DOCS_ALPN, BuiltIn(DOCS_ALPN))])

engine_spawn(ok) ==
    /\ engine_spawn_on(node, node', ok)
    /\ UNCHANGED <<gossip_vars, lib_vars>>

\* ------------------------------------------------------------------ Router
\* The router the node spawns (node.rs:354, 389) and shuts down (node.rs:518).
\* An inbound connection is a record of its negotiated tag, its state, the
\* handler it was dispatched to, what that handler's accept returned, and
\* whether some connection had failed before it arrived.
Terminal == {"Completed", "Failed", "Rejected"}
Connection(tag, state, after_failure) ==
    [tag |-> tag, state |-> state, handler |-> <<>>, result |-> "none",
     after_failure |-> after_failure]

\* A connection arrives: it is accepted when its tag is registered and
\* rejected otherwise.
incoming_on(n, m, tag) ==
    /\ n.router = "running"
    /\ Len(n.conns) < MaxConns
    /\ m = [n EXCEPT !.conns = Append(@, Connection(tag,
                IF tag \in DOMAIN n.registrations THEN "Accepted" ELSE "Rejected",
                \E j \in 1..Len(n.conns) : n.conns[j].state = "Failed"))]

incoming(tag) ==
    /\ incoming_on(node, node', tag)
    /\ UNCHANGED <<gossip_vars, lib_vars>>

\* The accept of the handler registered for the connection's tag is invoked.
dispatch_on(n, m, i) ==
    /\ n.router \in {"running", "closing"}
    /\ i \in 1..Len(n.conns)
    /\ n.conns[i].state = "Accepted"
    /\ m = [n EXCEPT !.conns[i].state = "Dispatched",
                     !.conns[i].handler = n.registrations[n.conns[i].tag]]

dispatch(i) ==
    /\ dispatch_on(node, node', i)
    /\ UNCHANGED <<gossip_vars, lib_vars>>

\* Variant of wrapper_accept that reports success whatever the handler
\* returned.
wrapper_accept_swallows(result) ==
    Returns(Ok(<<>>))

\* Variant of wrapper_accept that unwraps the handler's result.
wrapper_accept_unwraps(result) ==
    IF result.ok THEN Returns(Ok(<<>>))
    ELSE Panics("called Result::unwrap() on an Err value")

\* ProtocolWrapper::accept (node.rs:232-240): the foreign handler's accept is
\* awaited; its error becomes an AcceptError, its success Ok(()).
wrapper_accept(result) ==
    IF result.ok THEN Returns(Ok(<<>>))
    ELSE Returns(Err(<<"AcceptError", result.value>>))

\* What the accept of a registered handler hands to the router: a built-in
\* handler its own result, a wrapper what ProtocolWrapper::accept makes of the
\* foreign handler's result.
handler_accept(handler, result) ==
    IF handler[1] = "wrapper" THEN wrapper_accept(result) ELSE Returns(result)

\* The accept of connection i returns. A success completes the connection and
\* an error fails it; a panic of the handler's task ends the router and with
\* it every connection in flight.
accept_returns_on(n, m, i, ok) ==
    /\ n.router \in {"running", "closing"}
    /\ i \in 1..Len(n.conns)
    /\ n.conns[i].state = "Dispatched"
    /\ LET result == IF ok THEN Ok(<<>>) ELSE Err("CallbackError")
           out == handler_accept(n.conns[i].handler, result) IN
       IF out.panic
       THEN m = [n EXCEPT !.router = "crashed",
                          !.conns = [j \in 1..Len(n.conns) |->
                              IF n.conns[j].state \in Terminal THEN n.conns[j]
                              ELSE [n.conns[j] EXCEPT !.state = "Failed"]]]
       ELSE m = [n EXCEPT !.conns[i].state =
                              IF out.value.ok THEN "Completed" ELSE "Failed",
                          !.conns[i].result = IF ok THEN "ok" ELSE "err"]

accept_returns(i, ok) ==
    /\ accept_returns_on(node, node', i, ok)
    /\ UNCHANGED <<gossip_vars, lib_vars>>

\* While the router shuts down, a dispatched connection may be dropped
\* instead of drained.
drop_connection_on(n, m, i) ==
    /\ n.router = "closing"
    /\ i \in 1..Len(n.conns)
    /\ n.conns[i].state = "Dispatched"
    /\ m = [n EXCEPT !.conns[i].state = "Failed"]

drop_connection(i) ==
    /\ drop_connection_on(node, node', i)
    /\ UNCHANGED <<gossip_vars, lib_vars>>

\* router.shutdown() on a running router starts its shutdown; on a router that
\* has shut down it changes nothing.
router_shutdown(router) ==
    IF router = "running" THEN "closing" ELSE router

\* Variant of shutdown_on that waits without asking the router to shut down.
shutdown_on_waits(n, m) ==
    /\ n.pc \in {"running", "shutdown"}
    /\ n.call = "idle"
    /\ Len(n.results) < MaxShutdownCalls
    /\ m = [n EXCEPT !.call = "await"]

\* Node::shutdown (node.rs:517-518): `self.router.shutdown()` is called and
\* awaited.
shutdown_on(n, m) ==
    /\ n.pc \in {"running", "shutdown"}
    /\ n.call = "idle"
    /\ Len(n.results) < MaxShutdownCalls
    /\ m = [n EXCEPT !.call = "await", !.router = router_shutdown(@)]

shutdown ==
    /\ shutdown_on(node, node')
    /\ UNCHANGED <<gossip_vars, lib_vars>>

\* Variant of wrapper_shutdown that returns without calling the foreign
\* handler.
wrapper_shutdown_dropped(handler, foreign) ==
    foreign

\* ProtocolWrapper::shutdown (node.rs:242-244): the foreign handler's shutdown
\* is called and awaited.
wrapper_shutdown(handler, foreign) ==
    [foreign EXCEPT ![handler[2]] = @ + 1]

\* The shutdown of a registered handler: a wrapper forwards it.
handler_shutdown(handler, foreign) ==
    IF handler[1] = "wrapper" THEN wrapper_shutdown(handler, foreign) ELSE foreign

\* The router, shutting down, requests the shutdown of the registered
\* handlers in turn, each once, in any order.
request_shutdown_on(n, m, tag) ==
    /\ n.router = "closing"
    /\ n.shutting = "none"
    /\ tag \in DOMAIN n.registrations
    /\ n.shutdowns[tag] = 0
    /\ m = [n EXCEPT !.shutting = tag,
                     !.shutdowns[tag] = @ + 1,
                     !.foreign = handler_shutdown(n.registrations[tag], @)]

request_shutdown(tag) ==
    /\ request_shutdown_on(node, node', tag)
    /\ UNCHANGED <<gossip_vars, lib_vars>>

\* The handler's shutdown completes.
shutdown_completes_on(n, m) ==
    /\ n.router = "closing"
    /\ n.shutting # "none"
    /\ m = [n EXCEPT !.shutting = "none"]

shutdown_completes ==
    /\ shutdown_completes_on(node, node')
    /\ UNCHANGED <<gossip_vars, lib_vars>>

\* The router has shut down once every handler's shutdown has completed and
\* no connection is in flight.
router_closed_on(n, m) ==
    /\ n.router = "closing"
    /\ n.shutting = "none"
    /\ \A tag \in DOMAIN n.registrations : n.shutdowns[tag] > 0
    /\ \A i \in 1..Len(n.conns) : n.conns[i].state \in Terminal
    /\ m = [n EXCEPT !.router = "shutdown", !.pc = "shutdown"]

router_closed ==
    /\ router_closed_on(node, node')
    /\ UNCHANGED <<gossip_vars, lib_vars>>

\* What router.shutdown() hands back once the router has stopped: Ok, or the
\* join error of a router whose task panicked.
router_result(router) ==
    IF router = "shutdown" THEN Ok(<<>>) ELSE Err("JoinError")

\* Variant of shutdown_returns_on that fails every call after the first.
shutdown_returns_on_once(n, m) ==
    /\ n.call = "await"
    /\ n.router \in {"shutdown", "crashed"}
    /\ LET result == router_result(n.router) IN
       m = [n EXCEPT !.call = "idle",
                     !.results = Append(@, IF result.ok /\ Len(n.results) = 0
                                           THEN "ok" ELSE "err")]

\* Node::shutdown (node.rs:518-519): the awaited router.shutdown() returns and
\* `.map_err(..)?; Ok(())` hands its success or its error to the caller.
shutdown_returns_on(n, m) ==
    /\ n.call = "await"
    /\ n.router \in {"shutdown", "crashed"}
    /\ LET result == router_result(n.router) IN
       m = [n EXCEPT !.call = "idle",
                     !.results = Append(@, IF result.ok THEN "ok" ELSE "err")]

shutdown_returns ==
    /\ shutdown_returns_on(node, node')
    /\ UNCHANGED <<gossip_vars, lib_vars>>

\* The steps of a node's shutdown.
ShutdownNext ==
    \/ shutdown
    \/ \E tag \in Tags : request_shutdown(tag)
    \/ shutdown_completes
    \/ router_closed
    \/ shutdown_returns

NodeNext ==
    \/ /\ node.pc = "none"
       /\ \E kind \in {"memory", "persistent"}, options \in NodeOptionsSet,
             store_ok \in BOOLEAN : with_options(kind, options, store_ok)
    \/ \E ok \in BOOLEAN : bind(ok)
    \/ \E ok \in BOOLEAN : engine_spawn(ok)
    \/ ShutdownNext

NodeSpec == Init /\ [][NodeNext]_vars

\* A node with the router's connections: the constructions that succeed, with
\* docs on or off and with or without one caller-supplied protocol.
RouterOptions ==
    { [DefaultNodeOptions EXCEPT !.enable_docs = docs, !.protocols = protocols] :
        docs \in BOOLEAN, protocols \in {None, Some({"echo"})} }
ConnTags == {GOSSIP_ALPN, DOCS_ALPN, "echo"}
RouterNext ==
    \/ \E options \in RouterOptions : with_options("memory", options, TRUE)
    \/ bind(TRUE)
    \/ engine_spawn(TRUE)
    \/ \E tag \in ConnTags : incoming(tag)
    \/ \E i \in 1..MaxConns : dispatch(i)
    \/ \E i \in 1..MaxConns, ok \in BOOLEAN : accept_returns(i, ok)
    \/ \E i \in 1..MaxConns : drop_connection(i)
    \/ ShutdownNext

RouterSpec == Init /\ [][RouterNext]_vars

\* A node that accepts no connection, shut down under fair scheduling of the
\* router's and the caller's steps.
QuietNext ==
    \/ \E options \in RouterOptions : with_options("memory", options, TRUE)
    \/ bind(TRUE)
    \/ engine_spawn(TRUE)
    \/ ShutdownNext

QuietFairSpec ==
    /\ Init
    /\ [][QuietNext]_vars
    /\ WF_vars(\E tag \in Tags : request_shutdown(tag))
    /\ WF_vars(shutdown_completes)
    /\ WF_vars(router_closed)
    /\ WF_vars(shutdown_returns)

SenderOps == {"cancel", "broadcast", "broadcast_neighbors"}

Next ==
    \/ \E s \in Subs, n \in TopicLens, b \in BootstrapLists : subscribe(s, TopicOfLen(n), b)
    \/ \E s \in Subs, ok \in BOOLEAN : subscribe_native(s, ok)
    \/ \E s \in Subs, item \in Items : produce(s, item)
    \/ \E s \in Subs : end_stream(s)
    \/ \E s \in Subs : select_cancelled(s)
    \/ \E s \in Subs : select_next(s)
    \/ \E s \in Subs : wake(s)
    \/ \E s \in Subs : invoke_callback(s)
    \/ \E s \in Subs, ok \in BOOLEAN : callback_returns(s, ok)
    \/ \E c \in Callers, s \in Subs, op \in SenderOps : call(c, s, op)
    \/ \E c \in Callers : cancel_is_cancelled(c)
    \/ \E c \in Callers : cancel(c)
    \/ \E c \in Callers : lock(c)
    \/ \E c \in Callers, ok \in BOOLEAN : broadcast(c, ok)
    \/ \E c \in Callers, ok \in BOOLEAN : broadcast_neighbors(c, ok)
    \/ \E c \in Callers : return(c)

Spec == Init /\ [][Next]_vars

\* ------------------------------------------------- two subscriptions
\* Two subscriptions of one node (two subscribe calls with valid inputs), each
\* with its own stream, token, task and callback. The streams carry a
\* membership event or a transport error; the callbacks succeed and no Sender
\* method is called.
PairSubs == {1, 2}
PairItems == { item \in Items : item.kind \in {"NeighborUp", "Err"} }

PairInit ==
    /\ sub = [s \in PairSubs |-> [pc |-> "idle", topic |-> <<>>, bootstrap |-> <<>>,
                                  result |-> "none", native_calls |-> 0,
                              dropped |-> FALSE, at_drop |-> 0]]
    /\ cancel_token = [s \in PairSubs |-> FALSE]
    /\ stream = [s \in PairSubs |-> <<>>]
    /\ ended = [s \in PairSubs |-> FALSE]
    /\ receiver = [s \in PairSubs |-> 0]
    /\ task = [s \in PairSubs |-> [pc |-> "none", item |-> NoItem, stop |-> "none"]]
    /\ on_message = [s \in PairSubs |-> [calls |-> <<>>, returned |-> 0, erred |-> FALSE,
                                         late |-> 0]]
    /\ sender = [s \in PairSubs |-> 0]
    /\ caller = [c \in Callers |-> IdleCaller]
    /\ cancelled_ok = [s \in PairSubs |-> FALSE]
    /\ node = NoNode
    /\ conv = NoConv

\* One step of the receiver task of subscription s, its callback succeeding.
PairTaskStep(s) ==
    \/ select_cancelled(s)
    \/ select_next(s)
    \/ wake(s)
    \/ invoke_callback(s)
    \/ callback_returns(s, TRUE)

PairNext ==
    \/ \E s \in PairSubs : subscribe(s, TopicOfLen(TOPIC_LEN), <<>>)
    \/ \E s \in PairSubs : subscribe_native(s, TRUE)
    \/ \E s \in PairSubs, item \in PairItems : produce(s, item)
    \/ \E s \in PairSubs : end_stream(s)
    \/ \E s \in PairSubs : PairTaskStep(s)

PairSpec == PairInit /\ [][PairNext]_vars


\* ------------------------------------------------- one Sender, cancel and drop
\* One subscription with valid inputs whose Sender is cancelled or released;
\* the stream carries membership events.
SenderItems == { item \in Items : item.kind = "NeighborUp" }

\* Two subscriptions whose streams carry membership events and stay open. The
\* runtime keeps scheduling the task of subscription 2 and its callback
\* returns; nothing is assumed of subscription 1, whose callback may never
\* return.
PairFairNext ==
    \/ \E s \in PairSubs : subscribe(s, TopicOfLen(TOPIC_LEN), <<>>)
    \/ \E s \in PairSubs : subscribe_native(s, TRUE)
    \/ \E s \in PairSubs, item \in SenderItems : produce(s, item)
    \/ \E s \in PairSubs : select_cancelled(s)
    \/ \E s \in PairSubs : select_next(s)
    \/ \E s \in PairSubs : wake(s)
    \/ \E s \in PairSubs : invoke_callback(s)
    \/ \E s \in PairSubs : callback_returns(s, TRUE)

PairFairSpec == PairInit /\ [][PairFairNext]_vars /\ WF_vars(PairTaskStep(2))

\* Two subscriptions to the same topic whose streams stay open; the first
\* stream carries membership events and the second transport errors, so that
\* an item tells which stream it came from. One foreign thread cancels either
\* Sender.
OwnItems(s) ==
    { item \in Items : item.kind = (IF s = 1 THEN "NeighborUp" ELSE "Err") }
PairCancelNext ==
    \/ \E s \in PairSubs : subscribe(s, TopicOfLen(TOPIC_LEN), <<>>)
    \/ \E s \in PairSubs : subscribe_native(s, TRUE)
    \/ \E s \in PairSubs : \E item \in OwnItems(s) : produce(s, item)
    \/ \E s \in PairSubs : PairTaskStep(s)
    \/ \E c \in Callers, s \in PairSubs : call(c, s, "cancel")
    \/ \E c \in Callers : cancel_is_cancelled(c)
    \/ \E c \in Callers : cancel(c)
    \/ \E c \in Callers : return(c)

PairCancelSpec == PairInit /\ [][PairCancelNext]_vars

\* One step of the receiver task of subscription s.
TaskStep(s) ==
    \/ select_cancelled(s)
    \/ select_next(s)
    \/ wake(s)
    \/ invoke_callback(s)
    \/ \E ok \in BOOLEAN : callback_returns(s, ok)

SenderNext ==
    \/ \E s \in Subs : subscribe(s, TopicOfLen(TOPIC_LEN), <<>>)
    \/ \E s \in Subs : subscribe_native(s, TRUE)
    \/ \E s \in Subs, item \in SenderItems : produce(s, item)
    \/ \E s \in Subs : end_stream(s)
    \/ \E s \in Subs : TaskStep(s)
    \/ \E c \in Callers, s \in Subs : call(c, s, "cancel")
    \/ \E c \in Callers : cancel_is_cancelled(c)
    \/ \E c \in Callers : cancel(c)
    \/ \E c \in Callers : return(c)
    \/ \E s \in Subs : drop_sender(s)

SenderSpec == Init /\ [][SenderNext]_vars

\* The runtime keeps scheduling the spawned task, and every callback invocation
\* returns.
SenderFairSpec == SenderSpec /\ \A s \in Subs : WF_vars(TaskStep(s))

\* ------------------------------------------------- one Sender, every method
\* One subscription with valid inputs and one foreign thread that calls every
\* method of the Sender; the sends and the callback may fail and the stream
\* may end.
TokenNext ==
    \/ \E s \in Subs : subscribe(s, TopicOfLen(TOPIC_LEN), <<>>)
    \/ \E s \in Subs, ok \in BOOLEAN : subscribe_native(s, ok)
    \/ \E s \in Subs, item \in SenderItems : produce(s, item)
    \/ \E s \in Subs : end_stream(s)
    \/ \E s \in Subs : TaskStep(s)
    \/ \E c \in Callers, s \in Subs, op \in SenderOps : call(c, s, op)
    \/ \E c \in Callers : cancel_is_cancelled(c)
    \/ \E c \in Callers : cancel(c)
    \/ \E c \in Callers : lock(c)
    \/ \E c \in Callers, ok \in BOOLEAN : broadcast(c, ok)
    \/ \E c \in Callers, ok \in BOOLEAN : broadcast_neighbors(c, ok)
    \/ \E c \in Callers : return(c)

TokenSpec == Init /\ [][TokenNext]_vars

\* ------------------------------------------------- the bridge alone
\* One subscription with a valid topic and no Sender call: the stream carries
\* every kind of item and the callback may fail.
BridgeNext ==
    \/ \E s \in Subs, b \in BootstrapLists : subscribe(s, TopicOfLen(TOPIC_LEN), b)
    \/ \E s \in Subs : subscribe_native(s, TRUE)
    \/ \E s \in Subs, item \in Items : produce(s, item)
    \/ \E s \in Subs : end_stream(s)
    \/ \E s \in Subs : TaskStep(s)

BridgeSpec == Init /\ [][BridgeNext]_vars

\* ------------------------------------------------- two foreign threads
\* Two foreign threads share the Sender of one subscription: each may cancel or
\* broadcast, and the broadcasts succeed.
DuoCallers == {1, 2}

DuoInit ==
    /\ sub = [s \in Subs |-> [pc |-> "idle", topic |-> <<>>, bootstrap |-> <<>>,
                              result |-> "none", native_calls |-> 0,
                              dropped |-> FALSE, at_drop |-> 0]]
    /\ cancel_token = [s \in Subs |-> FALSE]
    /\ stream = [s \in Subs |-> <<>>]
    /\ ended = [s \in Subs |-> FALSE]
    /\ receiver = [s \in Subs |-> 0]
    /\ task = [s \in Subs |-> [pc |-> "none", item |-> NoItem, stop |-> "none"]]
    /\ on_message = [s \in Subs |-> [calls |-> <<>>, returned |-> 0, erred |-> FALSE,
                                     late |-> 0]]
    /\ sender = [s \in Subs |-> 0]
    /\ caller = [c \in DuoCallers |-> IdleCaller]
    /\ cancelled_ok = [s \in Subs |-> FALSE]
    /\ node = NoNode
    /\ conv = NoConv

DuoNext ==
    \/ \E s \in Subs : subscribe(s, TopicOfLen(TOPIC_LEN), <<>>)
    \/ \E s \in Subs : subscribe_native(s, TRUE)
    \/ \E s \in Subs, item \in SenderItems : produce(s, item)
    \/ \E s \in Subs : PairTaskStep(s)
    \/ \E c \in DuoCallers, s \in Subs, op \in {"cancel", "broadcast"} : call(c, s, op)
    \/ \E c \in DuoCallers : cancel_is_cancelled(c)
    \/ \E c \in DuoCallers : cancel(c)
    \/ \E c \in DuoCallers : lock(c)
    \/ \E c \in DuoCallers : broadcast(c, TRUE)
    \/ \E c \in DuoCallers : return(c)

DuoSpec == DuoInit /\ [][DuoNext]_vars

\* ------------------------------------------------- lib: path and key
\* A path is converted to a key and the key back to a path, with the same
\* prefix and root. The inputs are every path over PathChars up to MaxPathLen
\* characters, the prefix absent or present, and the root absent or a non-empty
\* string over RootChars up to MaxRootLen characters.
Roots == {None} \cup { Some(r) : r \in Strings(RootChars, MaxRootLen) \ {<<>>} }

PathInit ==
    /\ sub = [s \in Subs |-> [pc |-> "idle", topic |-> <<>>, bootstrap |-> <<>>,
                              result |-> "none", native_calls |-> 0,
                              dropped |-> FALSE, at_drop |-> 0]]
    /\ cancel_token = [s \in Subs |-> FALSE]
    /\ stream = [s \in Subs |-> <<>>]
    /\ ended = [s \in Subs |-> FALSE]
    /\ receiver = [s \in Subs |-> 0]
    /\ task = [s \in Subs |-> [pc |-> "none", item |-> NoItem, stop |-> "none"]]
    /\ on_message = [s \in Subs |-> [calls |-> <<>>, returned |-> 0, erred |-> FALSE,
                                     late |-> 0]]
    /\ sender = [s \in Subs |-> 0]
    /\ caller = [c \in Callers |-> IdleCaller]
    /\ cancelled_ok = [s \in Subs |-> FALSE]
    /\ node = NoNode
    /\ \E path \in Strings(PathChars, MaxPathLen), prefix \in Prefixes, root \in Roots :
           conv = [NoConv EXCEPT !.pc = "input", !.path = path, !.prefix = prefix,
                                 !.root = root]

\* path_to_key(path, prefix, root) is called and returns the key.
call_path_to_key ==
    /\ conv.pc = "input"
    /\ conv' = [conv EXCEPT !.pc = "key",
                            !.key = path_to_key(conv.path, conv.prefix, conv.root).value]
    /\ UNCHANGED <<gossip_vars, node_vars>>

\* key_to_path(key, prefix, root) is called on that key and returns the path.
call_key_to_path ==
    /\ conv.pc = "key"
    /\ conv' = [conv EXCEPT !.pc = "path",
                            !.got = key_to_path(conv.key, conv.prefix, conv.root).value]
    /\ UNCHANGED <<gossip_vars, node_vars>>

PathNext == call_path_to_key \/ call_key_to_path

PathSpec == PathInit /\ [][PathNext]_vars

\* ================================================================ properties
Subscribed(s) == sub[s].result = "ok"
Calls(s) == on_message[s].calls
\* The callback invocations are the messages of the first items of the stream, in order.
DeliveredInOrder(s) ==
    /\ Len(Calls(s)) <= Len(stream[s])
    /\ \A i \in 1..Len(Calls(s)) : Calls(s)[i] = message(stream[s][i])
Broadcasts == {"broadcast", "broadcast_neighbors"}

\* C1 (as stated): once a cancel() call has returned Ok, no callback invocation
\* begins any more.
C1_NoCallbackAfterCancel ==
    \A s \in Subs : on_message[s].late = 0

\* C1 (amended): once a cancel() call has returned Ok, at most one callback
\* invocation still begins (for the item of the loop iteration that was already
\* past its token check); after it the task only finishes that invocation,
\* evaluates the race and stops, taking nothing more from the stream.
C1_AtMostOneCallbackAfterCancel ==
    \A s \in Subs :
        /\ on_message[s].late <= 1
        /\ on_message[s].late = 1 =>
               /\ task[s].pc \in {"callback", "select", "done"}
               /\ task[s].pc = "done" => task[s].stop = "cancelled"
               /\ receiver[s] = Len(Calls(s))

C1_Witness ==
    \E s \in Subs :
        /\ cancelled_ok[s]
        /\ on_message[s].late = 1
        /\ task[s].stop = "cancelled"
        /\ receiver[s] < Len(stream[s])

\* C2: the callback is invoked with the messages of the stream's items in the
\* stream's order, once each, and a task that ran to the end of the stream has
\* delivered every item.
C2_InOrderOnceEach ==
    \A s \in Subs :
        /\ DeliveredInOrder(s)
        /\ task[s].stop = "ended" => Len(Calls(s)) = Len(stream[s])
        /\ (task[s].pc = "done" /\ ~cancel_token[s]) => Len(Calls(s)) = Len(stream[s])

C2_Witness ==
    \E s \in Subs :
        /\ task[s].stop = "ended"
        /\ ~cancel_token[s]
        /\ Len(stream[s]) = 3
        /\ Cardinality({stream[s][i] : i \in 1..3}) = 3
        /\ Len(Calls(s)) = 3

\* C3: after the callback has returned an error the task stops only on
\* cancellation or at the end of the stream, and at the end of the stream every
\* item has been delivered.
C3_CallbackErrorDoesNotStopLoop ==
    \A s \in Subs :
        (on_message[s].erred /\ task[s].pc = "done") =>
            \/ task[s].stop = "cancelled" /\ cancel_token[s]
            \/ task[s].stop = "ended" /\ ended[s] /\ Len(Calls(s)) = Len(stream[s])

C3_Witness ==
    \E s \in Subs :
        /\ on_message[s].erred
        /\ on_message[s].returned >= 1
        /\ task[s].pc = "callback"

\* C4: a cancel() call issued after a cancel() call has returned Ok returns an
\* error and never cancels the token again, and a cancel() call returns an error
\* only when another cancel() call succeeds.
C4_SecondCancelFails ==
    \A c \in DOMAIN caller :
        caller[c].op = "cancel" =>
            /\ caller[c].after_cancel =>
                   /\ caller[c].pc \in {"is_cancelled", "return"}
                   /\ caller[c].pc = "return" => caller[c].result = "err"
            /\ (caller[c].pc = "return" /\ caller[c].result = "err") =>
                   /\ cancel_token[caller[c].sub]
                   /\ \/ cancelled_ok[caller[c].sub]
                      \/ \E d \in DOMAIN caller \ {c} :
                             /\ caller[d].op = "cancel"
                             /\ caller[d].sub = caller[c].sub
                             /\ caller[d].pc = "return"
                             /\ caller[d].result = "ok"

C4_Witness ==
    \E c \in DOMAIN caller :
        /\ caller[c].op = "cancel"
        /\ caller[c].after_cancel
        /\ caller[c].pc = "return"
        /\ caller[c].result = "err"

\* C5 (as stated): a broadcast() or broadcast_neighbors() call issued after a
\* cancel() call has returned Ok never reaches the native send and returns an error.
C5_BroadcastAfterCancelFails ==
    \A c \in DOMAIN caller :
        (caller[c].op \in Broadcasts /\ caller[c].after_cancel) =>
            /\ caller[c].pc # "send"
            /\ caller[c].pc = "return" => caller[c].result = "err"

\* C6: a subscribe call whose topic is not 32 bytes long has returned an error
\* without calling the native subscribe, spawning the task or invoking the callback.
C6_BadTopicRejectedFirst ==
    \A s \in Subs :
        (sub[s].pc # "idle" /\ Len(sub[s].topic) # 32) =>
            /\ sub[s].pc = "returned"
            /\ sub[s].result = "err_topic"
            /\ sub[s].native_calls = 0
            /\ task[s].pc = "none"
            /\ Calls(s) = <<>>

C6_Witness ==
    \E s \in Subs :
        /\ Len(sub[s].topic) = 33
        /\ sub[s].pc = "returned"
        /\ sub[s].result = "err_topic"

\* C7: a subscribe call with a bootstrap entry that does not parse has returned
\* an error without calling the native subscribe or spawning the task.
C7_BadBootstrapRejectedFirst ==
    \A s \in Subs :
        (sub[s].pc # "idle" /\ \E i \in 1..Len(sub[s].bootstrap) :
                                   parse(sub[s].bootstrap[i]) = NoId) =>
            /\ sub[s].pc = "returned"
            /\ sub[s].result \in {"err_topic", "err_bootstrap"}
            /\ Len(sub[s].topic) = 32 => sub[s].result = "err_bootstrap"
            /\ sub[s].native_calls = 0
            /\ task[s].pc = "none"
            /\ Calls(s) = <<>>

C7_Witness ==
    \E s \in Subs :
        /\ Len(sub[s].topic) = 32
        /\ sub[s].bootstrap = <<"peer1", "not-an-id">>
        /\ sub[s].result = "err_bootstrap"

\* C8: a race evaluated with the token cancelled and an item available takes the
\* cancellation branch: the task stops, the item stays in the stream and no
\* callback invocation follows.
C8_CancellationWins ==
    [][\A s \in Subs :
          /\ (task[s].pc = "select" /\ cancel_token[s] /\ receiver[s] < Len(stream[s])
                  /\ task'[s] # task[s])
                 => /\ task'[s].pc = "done"
                    /\ task'[s].stop = "cancelled"
                    /\ receiver'[s] = receiver[s]
                    /\ on_message'[s] = on_message[s]
          /\ task[s].stop = "cancelled"
                 => /\ task'[s] = task[s]
                    /\ receiver'[s] = receiver[s]
                    /\ on_message'[s] = on_message[s]]_vars

C8_Witness ==
    \E s \in Subs :
        /\ task[s].stop = "cancelled"
        /\ receiver[s] < Len(stream[s])
        /\ Len(Calls(s)) = receiver[s]

\* C9: the end of the stream stops the task without a callback invocation for
\* it, and a task stopped by the end of the stream never polls the stream or
\* invokes the callback again.
C9_StreamEndIsTerminal ==
    [][\A s \in Subs :
          task'[s].stop = "ended" =>
              /\ task'[s].pc = "done"
              /\ ended[s]
              /\ receiver[s] = Len(stream[s])
              /\ receiver'[s] = receiver[s]
              /\ on_message'[s] = on_message[s]
              /\ task[s].stop = "ended" => task'[s] = task[s]]_vars

C9_Witness ==
    \E s \in Subs :
        /\ task[s].stop = "ended"
        /\ Len(Calls(s)) >= 1
        /\ on_message[s].returned = Len(stream[s])

\* C10: at most one item has been taken from the stream and not finished its
\* callback invocation, at most one callback invocation is in progress, and an
\* item is in flight only while the task handles it.
C10_OneInOneOut ==
    \A s \in Subs :
        /\ receiver[s] - on_message[s].returned \in {0, 1}
        /\ Len(Calls(s)) - on_message[s].returned \in {0, 1}
        /\ receiver[s] - on_message[s].returned = 1 <=> task[s].pc \in {"event", "callback"}
        /\ Len(Calls(s)) - on_message[s].returned = 1 <=> task[s].pc = "callback"

C10_Witness ==
    \E s \in Subs :
        /\ task[s].pc = "callback"
        /\ Len(stream[s]) - receiver[s] >= 2

\* C20: the registration map of a constructed node holds exactly the gossip
\* tag, the blobs tag, the docs tag when enable_docs is set and every
\* caller-supplied tag; the docs handler and the docs api exist exactly when
\* enable_docs is set; and once the router is spawned the map never changes.
SuppliedTags == IF node.options.protocols.some THEN node.options.protocols.value ELSE {}
C20_RegistrationsFixed ==
    /\ [](node.router # "none" =>
            /\ DOMAIN node.registrations =
                   {GOSSIP_ALPN, BLOBS_ALPN}
                   \cup (IF node.options.enable_docs THEN {DOCS_ALPN} ELSE {})
                   \cup SuppliedTags
            /\ node.docs <=> node.options.enable_docs
            /\ (\E tag \in DOMAIN node.registrations : node.registrations[tag] = BuiltIn(DOCS_ALPN))
                   => node.options.enable_docs
            /\ node.options.enable_docs => DOCS_ALPN \in DOMAIN node.registrations)
    /\ [][node.router # "none" => node'.registrations = node.registrations]_vars

C20_Witness ==
    /\ node.pc = "shutdown"
    /\ node.options.enable_docs
    /\ SuppliedTags = {"echo", "chat"}
    /\ DOMAIN node.registrations = {GOSSIP_ALPN, BLOBS_ALPN, DOCS_ALPN, "echo", "chat"}

\* C11: cancellation does not pre-empt the callback: while an invocation is in
\* progress the only step of the task is the return of that invocation, whatever
\* cancel() does meanwhile; the task stops on cancellation only from an
\* evaluation of its race that finds the token set, with every invocation it
\* began returned.
C11_CancelDoesNotPreempt ==
    /\ [][\A s \in Subs :
            /\ task[s].pc = "callback" =>
                   \/ task'[s] = task[s] /\ on_message'[s] = on_message[s]
                   \/ /\ task'[s].pc = "select"
                      /\ task'[s].stop = "none"
                      /\ on_message'[s].returned = on_message[s].returned + 1
                      /\ on_message'[s].calls = on_message[s].calls
            /\ (task'[s].stop = "cancelled" /\ task[s].stop # "cancelled") =>
                   /\ task[s].pc = "select"
                   /\ cancel_token[s]]_vars
    /\ [](\A s \in Subs :
            task[s].stop = "cancelled" => on_message[s].returned = Len(Calls(s)))

C11_Witness ==
    \E s \in Subs :
        /\ task[s].pc = "callback"
        /\ cancel_token[s]
        /\ cancelled_ok[s]
        /\ on_message[s].late = 0

\* C13: on every subscription the Error invocations are exactly the transport
\* errors of its own stream, one invocation per error carrying the error's
\* text, and the task it ran in has not faulted: it is stopped only by
\* cancellation or the end of the stream.
C13_ErrorSurfacedOnce ==
    \A s \in DOMAIN sub :
        /\ Len(Calls(s)) <= Len(stream[s])
        /\ \A i \in 1..Len(Calls(s)) :
               /\ type(Calls(s)[i]) = "Error" <=> stream[s][i].kind = "Err"
               /\ stream[s][i].kind = "Err" =>
                      as_error(Calls(s)[i]) = Returns(err_to_string(stream[s][i].err))
        /\ task[s].stop \in {"none", "cancelled", "ended"}
        /\ task[s].pc = "done" <=> task[s].stop # "none"

C13_Witness ==
    \E s \in DOMAIN sub : \E t \in DOMAIN sub \ {s} :
        /\ Len(Calls(s)) = 2
        /\ type(Calls(s)[1]) = "Error"
        /\ type(Calls(s)[2]) = "NeighborUp"
        /\ Len(Calls(t)) = 2
        /\ \A i \in 1..2 : type(Calls(t)[i]) # "Error"

\* C14 (as stated): no callback invocation follows an Error invocation.
C14_ErrorIsLast ==
    \A s \in Subs : \A i \in 1..Len(Calls(s)) :
        type(Calls(s)[i]) = "Error" => i = Len(Calls(s))

\* C14 (amended): the Error event does not end the subscription: after an Error
\* invocation has returned, the task stops only on cancellation or at the end
\* of the stream, and at the end of the stream every item that followed the
\* error has been delivered in order.
C14_ErrorDoesNotEndSubscription ==
    \A s \in Subs :
        (\E i \in 1..on_message[s].returned : type(Calls(s)[i]) = "Error") =>
            /\ DeliveredInOrder(s)
            /\ task[s].pc = "done" =>
                   \/ task[s].stop = "cancelled" /\ cancel_token[s]
                   \/ task[s].stop = "ended" /\ ended[s] /\ Len(Calls(s)) = Len(stream[s])

C14_Witness ==
    \E s \in Subs :
        /\ Len(Calls(s)) = 3
        /\ type(Calls(s)[1]) = "Error"
        /\ type(Calls(s)[2]) = "Received"
        /\ task[s].stop = "ended"

\* C18: every message handed to the callback has one variant, the one of the
\* stream item it was built from; the accessor of that variant returns the
\* item's payload and every other accessor panics.
C18_AccessorsMatchVariant ==
    \A s \in Subs : \A i \in 1..Len(Calls(s)) :
        LET msg == Calls(s)[i]
            item == stream[s][i]
        IN  /\ type(msg) \in MessageTypes
            /\ type(msg) = (IF item.kind = "Err" THEN "Error" ELSE item.kind)
            /\ as_neighbor_up(msg) =
                   IF item.kind = "NeighborUp" THEN Returns(to_string(item.peer))
                   ELSE Panics("not a NeighborUp message")
            /\ as_neighbor_down(msg) =
                   IF item.kind = "NeighborDown" THEN Returns(to_string(item.peer))
                   ELSE Panics("not a NeighborDown message")
            /\ as_received(msg) =
                   IF item.kind = "Received"
                   THEN Returns(MessageContent(item.content, to_string(item.peer)))
                   ELSE Panics("not a Received message")
            /\ as_error(msg) =
                   IF item.kind = "Err" THEN Returns(err_to_string(item.err))
                   ELSE Panics("not a Error message")

C18_Witness ==
    \E s \in Subs :
        /\ Len(Calls(s)) = 3
        /\ type(Calls(s)[1]) = "Received"
        /\ type(Calls(s)[2]) = "Lagged"
        /\ type(Calls(s)[3]) = "NeighborDown"

\* C12: releasing the Sender without cancel() leaves the token and the task as
\* they are, and the token is never set afterwards; with the token unset the
\* task stops only at the end of the stream with every item delivered, and
\* every item the stream yields, before or after the release, is eventually
\* delivered to the callback.
C12_DropDoesNotStopTask ==
    /\ [][\A s \in Subs :
            /\ (sub'[s].dropped /\ ~sub[s].dropped) =>
                   /\ cancel_token'[s] = cancel_token[s]
                   /\ task'[s] = task[s]
            /\ sub[s].dropped => cancel_token'[s] = cancel_token[s]]_vars
    /\ [](\A s \in Subs :
            (sub[s].dropped /\ ~cancel_token[s] /\ task[s].pc = "done") =>
                /\ task[s].stop = "ended"
                /\ ended[s]
                /\ Len(Calls(s)) = Len(stream[s]))
    /\ \A s \in Subs : \A n \in 1..MaxEvents :
           (sub[s].dropped /\ ~cancel_token[s] /\ Len(stream[s]) >= n)
               ~> (Len(Calls(s)) >= n)

C12_Witness ==
    \E s \in Subs :
        /\ sub[s].dropped
        /\ sub[s].at_drop = 0
        /\ ~cancel_token[s]
        /\ on_message[s].returned >= 2
        /\ task[s].pc = "parked"

\* C15: whatever the task of subscription 1 does, and in particular while its
\* callback never returns, the task of subscription 2 always has a step to take
\* when it is not parked or stopped, and it delivers every item of its stream.
C15_SubscriptionsIndependent ==
    /\ [](task[1].pc = "callback" =>
            /\ task[2].pc \in {"select", "next", "event", "callback"} =>
                   ENABLED PairTaskStep(2)
            /\ (task[2].pc = "parked" /\ receiver[2] < Len(stream[2])) =>
                   ENABLED PairTaskStep(2))
    /\ \A n \in 1..MaxEvents :
           (Len(stream[2]) >= n) ~> (Len(Calls(2)) >= n)

C15_Witness ==
    /\ task[1].pc = "callback"
    /\ on_message[1].returned = 0
    /\ on_message[2].returned >= 2

\* C16: once the token is set, at whatever point of the loop the task stands,
\* the task eventually terminates.
C16_NoLostWakeup ==
    \A s \in Subs : cancel_token[s] ~> (task[s].pc = "done")

C16_Witness ==
    \E s \in Subs :
        /\ task[s].pc = "parked"
        /\ cancel_token[s]
        /\ receiver[s] = Len(stream[s])
        /\ ~ended[s]

\* C17: a thread inside cancel() always has its next step enabled, whoever
\* holds the send lock and wherever the task stands, and its steps leave the
\* lock alone.
C17_CancelNeverBlocks ==
    \A c \in DOMAIN caller :
        /\ caller[c].pc = "is_cancelled" => ENABLED cancel_is_cancelled(c)
        /\ caller[c].pc = "cancel" => ENABLED cancel(c)
        /\ (caller[c].op = "cancel" /\ caller[c].pc = "return") => ENABLED return(c)
        /\ caller[c].op = "cancel" => sender[caller[c].sub] # c

C17_Witness ==
    \E c \in DOMAIN caller : \E d \in DOMAIN caller \ {c} :
        /\ caller[c].op = "cancel"
        /\ caller[c].pc = "is_cancelled"
        /\ caller[d].pc = "send"
        /\ sender[caller[c].sub] = d
        /\ task[caller[c].sub].pc = "callback"

\* A canonicalized path: absolute, without repeated or trailing separators.
Canonical(str) ==
    /\ str # <<>>
    /\ Head(str) = Sep
    /\ \A i \in 1..(Len(str) - 1) : ~(str[i] = Sep /\ str[i + 1] = Sep)
    /\ Len(str) > 1 => str[Len(str)] # Sep

\* C30 (as stated): for every path lying under the root when a root is given,
\* converting the path to a key and the key back returns the path.
C30_RoundTrip ==
    (conv.pc = "path" /\ (conv.root.some => starts_with(conv.path, conv.root.value)))
        => conv.got = conv.path

\* C30 (amended): the round trip returns the path when no root is given, and,
\* when a root is given, for every canonicalized path that lies strictly below
\* a canonicalized root; the key is the prefix, the path without its root, and
\* one null byte.
C30_RoundTripCanonical ==
    (/\ conv.pc = "path"
     /\ conv.root.some =>
            /\ Canonical(conv.path)
            /\ Canonical(conv.root.value)
            /\ starts_with(conv.path, conv.root.value)
            /\ components(conv.path) # components(conv.root.value))
        => /\ conv.got = conv.path
           /\ conv.key[Len(conv.key)] = 0
           /\ \A i \in 1..(Len(conv.key) - 1) : conv.key[i] # 0
           /\ conv.prefix.some =>
                  SubSeq(conv.key, 1, Len(conv.prefix.value)) = into_bytes(conv.prefix.value)

C30_Witness ==
    /\ conv.pc = "path"
    /\ conv.path = <<"/", "a", "/", "b">>
    /\ conv.root = Some(<<"/", "a">>)
    /\ conv.prefix.some
    /\ conv.key = into_bytes(<<"p", ":", "b">>) \o <<0>>
    /\ conv.got = conv.path

\* C29: a subscribe call that waits for the native subscription can always
\* return: no event has been yielded and no callback invoked by then, and at
\* its return the task is scheduled with nothing delivered yet.
C29_SubscribeDoesNotWaitForSwarm ==
    /\ [](\A s \in Subs :
            sub[s].pc = "native" =>
                /\ ENABLED subscribe_native(s, TRUE)
                /\ stream[s] = <<>>
                /\ Calls(s) = <<>>
                /\ task[s].pc = "none")
    /\ [][\A s \in Subs :
            (sub[s].pc = "native" /\ sub'[s].result = "ok") =>
                /\ sub'[s].pc = "returned"
                /\ task'[s].pc = "select"
                /\ stream'[s] = <<>>
                /\ on_message'[s].calls = <<>>]_vars

C29_Witness ==
    \E s \in Subs :
        /\ sub[s].pc = "returned"
        /\ sub[s].result = "ok"
        /\ sub[s].bootstrap = <<"peer1">>
        /\ stream[s] = <<>>
        /\ ~ended[s]
        /\ task[s].pc = "parked"
        /\ Calls(s) = <<>>

\* C27: construction is atomic. A construction that failed returned an error,
\* spawned no router and left nothing it had started behind (no bound
\* endpoint, no gossip service, no docs engine, no registration, no created
\* protocol), and takes no further step; a router exists only on a node whose
\* construction returned no error.
C27_AtomicConstruction ==
    /\ [](node.pc = "failed" =>
            /\ node.error # "none"
            /\ node.router = "none"
            /\ ~node.endpoint /\ ~node.gossip /\ ~node.engine /\ ~node.docs
            /\ DOMAIN node.registrations = {}
            /\ node.created = {})
    /\ [](node.router # "none" => node.error = "none" /\ node.endpoint /\ node.gossip)
    /\ [][node.pc = "failed" => node' = node]_vars

\* The docs engine failed to start after the endpoint was bound and gossip
\* spawned.
C27_Witness ==
    /\ node.pc = "failed"
    /\ node.error = "engine"
    /\ node.options.enable_docs
    /\ ~node.endpoint

\* C28: gc_interval_millis has no effect. Whatever step a node takes, the same
\* step is the one a node takes that differs from it in gc_interval_millis
\* only (absent, 0 or positive): the two end with the same error or the same
\* services and registrations, and shut down alike.
GcValues == {None, Some(<<0>>), Some(<<5>>)}
WithGc(n, gc) == [n EXCEPT !.options.gc_interval_millis = gc]
NodeStepRel(a, b) ==
    \/ \E kind \in {"memory", "persistent"}, store_ok \in BOOLEAN :
          with_options_on(a, b, kind, b.options, store_ok)
    \/ \E ok \in BOOLEAN : bind_on(a, b, ok)
    \/ \E ok \in BOOLEAN : engine_spawn_on(a, b, ok)
    \/ shutdown_on(a, b)
    \/ \E tag \in Tags : request_shutdown_on(a, b, tag)
    \/ shutdown_completes_on(a, b)
    \/ router_closed_on(a, b)
    \/ shutdown_returns_on(a, b)
C28_GcIntervalInert ==
    [][\A gc \in GcValues : NodeStepRel(WithGc(node, gc), WithGc(node', gc))]_vars

\* A memory node built with a positive gc interval was constructed and shut
\* down.
C28_Witness ==
    /\ node.kind = "memory"
    /\ node.options.gc_interval_millis = Some(<<5>>)
    /\ node.pc = "shutdown"
    /\ node.results = <<"ok">>

\* C21: a connection whose tag is not registered, the docs tag on a node
\* built without docs for one, is rejected: it is never dispatched, no
\* handler's accept returns for it and it stays rejected; its arrival changes
\* no other connection and not the router.
Conns == 1..Len(node.conns)
C21_UnregisteredRejected ==
    /\ [](\A i \in Conns :
            /\ node.conns[i].tag \notin DOMAIN node.registrations
                   => node.conns[i].state = "Rejected"
            /\ (/\ node.conns[i].tag = DOCS_ALPN
                /\ ~node.options.enable_docs
                /\ DOCS_ALPN \notin SuppliedTags) => node.conns[i].state = "Rejected"
            /\ node.conns[i].state = "Rejected"
                   => node.conns[i].handler = <<>> /\ node.conns[i].result = "none")
    /\ [][\A i \in Conns : node.conns[i].state = "Rejected" =>
              node'.conns[i] = node.conns[i]]_vars
    /\ [][(/\ Len(node'.conns) = Len(node.conns) + 1
           /\ node'.conns[Len(node'.conns)].state = "Rejected")
              => /\ \A i \in Conns : node'.conns[i] = node.conns[i]
                 /\ node'.router = node.router]_vars

\* On a node without docs a docs connection was rejected while a gossip
\* connection was dispatched, and the gossip connection then completed.
C21_Witness ==
    /\ ~node.options.enable_docs
    /\ Len(node.conns) = 2
    /\ node.conns[1].tag = GOSSIP_ALPN /\ node.conns[1].state = "Completed"
    /\ node.conns[2].tag = DOCS_ALPN /\ node.conns[2].state = "Rejected"
    /\ node.router = "running"

\* C22: a connection with a registered tag is Accepted, then Dispatched, then
\* Completed or Failed, and stays there; it is dispatched to the handler
\* registered for its own tag; it is Completed when that handler's accept
\* returned success and Failed when it returned an error; while the router
\* has not stopped an accepted connection can be dispatched and a dispatched
\* one can reach either outcome.
ConnSteps ==
    {<<"Accepted", "Dispatched">>, <<"Dispatched", "Completed">>,
     <<"Dispatched", "Failed">>}
C22_ConnectionStateMachine ==
    /\ [](\A i \in Conns : node.conns[i].tag \in DOMAIN node.registrations =>
            /\ node.conns[i].state \in {"Accepted", "Dispatched", "Completed", "Failed"}
            /\ node.conns[i].state # "Accepted"
                   => /\ node.conns[i].handler = node.registrations[node.conns[i].tag]
                      /\ node.conns[i].handler[2] = node.conns[i].tag
            /\ node.conns[i].result = "ok" <=> node.conns[i].state = "Completed"
            /\ node.conns[i].result = "err" => node.conns[i].state = "Failed"
            /\ node.conns[i].state = "Accepted" => ENABLED dispatch(i)
            /\ node.conns[i].state = "Dispatched"
                   => ENABLED accept_returns(i, TRUE) /\ ENABLED accept_returns(i, FALSE))
    /\ [][\A i \in Conns :
              \/ node'.conns[i] = node.conns[i]
              \/ <<node.conns[i].state, node'.conns[i].state>> \in ConnSteps]_vars

\* Two connections to a caller-supplied handler: its accept returned success
\* for one and an error for the other.
C22_Witness ==
    /\ Len(node.conns) = 2
    /\ \A i \in Conns : node.conns[i].handler = ProtocolWrapper("echo")
    /\ node.conns[1].state = "Completed" /\ node.conns[1].result = "ok"
    /\ node.conns[2].state = "Failed" /\ node.conns[2].result = "err"

\* C23: the error of a handler's accept fails that connection only: the step
\* changes no other connection, not the router and not the registrations;
\* the router never crashes, a running router accepts a further connection
\* for any tag, and every other dispatched connection can still reach either
\* outcome.
C23_FailureIsolated ==
    /\ [][\A i \in Conns :
              (node.conns[i].state = "Dispatched" /\ node'.conns[i].state = "Failed") =>
                  /\ Len(node'.conns) = Len(node.conns)
                  /\ \A j \in Conns \ {i} : node'.conns[j] = node.conns[j]
                  /\ node'.router = node.router
                  /\ node'.registrations = node.registrations]_vars
    /\ [](node.router # "crashed")
    /\ []((node.router = "running" /\ Len(node.conns) < MaxConns)
              => \A tag \in ConnTags : ENABLED incoming(tag))
    /\ [](\A i \in Conns : node.conns[i].state = "Dispatched"
              => ENABLED accept_returns(i, TRUE) /\ ENABLED accept_returns(i, FALSE))

\* A caller-supplied handler failed one connection; a connection for the same
\* tag that arrived after the failure was accepted, dispatched and completed
\* by a router that is still running.
C23_Witness ==
    /\ Len(node.conns) = 2
    /\ node.conns[1].tag = "echo"
    /\ node.conns[1].state = "Failed" /\ node.conns[1].result = "err"
    /\ node.conns[2].tag = "echo" /\ node.conns[2].after_failure
    /\ node.conns[2].state = "Completed"
    /\ node.router = "running"

\* C24: shutdown has every registered handler's shutdown requested exactly
\* once, a wrapper forwarding it to its foreign handler exactly once, and
\* returns only after every one of them has completed; no handler is shut
\* down before shutdown is called.
Forwarded(tag) ==
    IF node.registrations[tag] = ProtocolWrapper(tag) THEN node.foreign[tag] ELSE 0
C24_HandlersShutDownOnce ==
    /\ [](node.router # "none" => \A tag \in DOMAIN node.registrations :
            /\ node.shutdowns[tag] <= 1
            /\ node.registrations[tag] = ProtocolWrapper(tag)
                   => node.foreign[tag] = node.shutdowns[tag]
            /\ node.router = "running" => node.shutdowns[tag] = 0)
    /\ [](Len(node.results) > 0 =>
            /\ node.shutting = "none"
            /\ \A tag \in DOMAIN node.registrations : node.shutdowns[tag] = 1
            /\ \A tag \in node.created : node.foreign[tag] = 1)

\* shutdown returned on a node with docs and one caller-supplied protocol,
\* whose foreign handler was shut down.
C24_Witness ==
    /\ node.results = <<"ok">>
    /\ DOMAIN node.registrations = {GOSSIP_ALPN, BLOBS_ALPN, DOCS_ALPN, "echo"}
    /\ Forwarded("echo") = 1

\* C25: a call of shutdown on a node that has shut down changes nothing but
\* the record of the calls: the router stays shut down, no handler's shutdown
\* is requested again, every connection keeps its state, and the call returns
\* success as soon as it is made.
C25_ShutdownIdempotent ==
    /\ [][Len(node.results) >= 1 =>
              node' = [node EXCEPT !.call = node'.call, !.results = node'.results]]_vars
    /\ [](Len(node.results) >= 1 => node.router = "shutdown")
    /\ [](\A k \in 1..Len(node.results) : node.results[k] = "ok")
    /\ []((node.call = "await" /\ Len(node.results) >= 1) => ENABLED shutdown_returns)

\* shutdown was called with a connection in flight, which was dropped, and
\* called again after it had returned.
C25_Witness ==
    /\ node.results = <<"ok", "ok">>
    /\ node.router = "shutdown"
    /\ \E i \in Conns : node.conns[i].state = "Failed" /\ node.conns[i].result = "none"

\* C26: on a node that accepted no connection a call of shutdown returns,
\* and what it returns is success.
C26_QuietShutdownReturns ==
    /\ (node.call = "await") ~> (node.call = "idle" /\ Len(node.results) > 0)
    /\ [](node.conns = <<>> /\ \A k \in 1..Len(node.results) : node.results[k] = "ok")

\* shutdown returned on a node no connection ever reached.
C26_Witness ==
    /\ node.conns = <<>>
    /\ node.results = <<"ok">>
    /\ node.call = "idle"

\* C31: a construction whose secret_key is not exactly 32 bytes long fails,
\* with an error raised before the bind (the store, an address or the key
\* itself; the key itself when the store and the addresses are good): the
\* endpoint is never bound, no service is started, no protocol is created
\* or registered and no router exists.
BadSecretKey(n) ==
    /\ n.kind # "none"
    /\ n.options.secret_key.some
    /\ Len(n.options.secret_key.value) # SECRET_KEY_LEN
GoodAddrs(options) ==
    /\ options.ipv4_addr.some => parse_addr_v4(options.ipv4_addr.value)
    /\ options.ipv6_addr.some => parse_addr_v6(options.ipv6_addr.value)
C31_BadSecretKeyFailsBeforeBind ==
    /\ [](BadSecretKey(node) =>
            /\ node.pc = "failed"
            /\ node.error \in {"store", "ipv4_addr", "ipv6_addr", "secret_key"}
            /\ (/\ node.error # "store"
                /\ GoodAddrs(node.options)) => node.error = "secret_key"
            /\ ~node.endpoint /\ ~node.gossip /\ ~node.engine /\ ~node.docs
            /\ node.created = {}
            /\ DOMAIN node.registrations = {}
            /\ node.router = "none")
    /\ [][BadSecretKey(node') => node.pc \in {"none", "failed"}]_vars

\* A memory node with docs, two protocols and a key of 31 bytes failed on the
\* key.
C31_Witness ==
    /\ node.kind = "memory"
    /\ node.options.secret_key = Some(KeyOfLen(SECRET_KEY_LEN - 1))
    /\ node.options.enable_docs
    /\ node.options.protocols = Some({"echo", "chat"})
    /\ node.pc = "failed"
    /\ node.error = "secret_key"

\* C32: every item the task has taken from the stream is handed to the
\* callback exactly once, as the message of its own variant with its own
\* payload (NeighborUp and NeighborDown with the peer, Received with the
\* content and the sender, Lagged, and an error as Error with its text), and
\* nothing else is; when such an invocation returns, whatever it returns, the
\* loop goes on to its next iteration.
Translates(item, msg) ==
    CASE item.kind = "NeighborUp" ->
             type(msg) = "NeighborUp" /\ as_neighbor_up(msg) = Returns(to_string(item.peer))
      [] item.kind = "NeighborDown" ->
             type(msg) = "NeighborDown" /\ as_neighbor_down(msg) = Returns(to_string(item.peer))
      [] item.kind = "Received" ->
             /\ type(msg) = "Received"
             /\ as_received(msg) = Returns(MessageContent(item.content, to_string(item.peer)))
      [] item.kind = "Lagged" -> type(msg) = "Lagged"
      [] item.kind = "Err" ->
             type(msg) = "Error" /\ as_error(msg) = Returns(err_to_string(item.err))
C32_ItemsTranslated ==
    /\ [](\A s \in Subs :
            /\ receiver[s] <= Len(stream[s])
            /\ Len(Calls(s)) = receiver[s] - (IF task[s].pc = "event" THEN 1 ELSE 0)
            /\ \A i \in 1..Len(Calls(s)) : Translates(stream[s][i], Calls(s)[i]))
    /\ [][\A s \in Subs :
              on_message'[s].returned # on_message[s].returned =>
                  /\ on_message'[s].returned = on_message[s].returned + 1
                  /\ on_message'[s].calls = on_message[s].calls
                  /\ task'[s].pc = "select"]_vars

\* A departure, a received message and a transport error were each handed to
\* the callback, which failed at least once, and the task is back in its
\* loop.
C32_Witness ==
    \E s \in Subs :
        /\ Len(stream[s]) = 3
        /\ stream[s][1].kind = "NeighborDown"
        /\ stream[s][2].kind = "Received"
        /\ stream[s][3].kind = "Err"
        /\ on_message[s].returned = 3
        /\ on_message[s].erred
        /\ task[s].pc = "parked"

\* C33 (as stated): of the cancel() calls on one Sender at most one returns
\* Ok: a call that returns Ok finds that no call on that Sender has returned Ok
\* before it and that no other call is returning Ok with it.
C33_ExactlyOneCancelSucceeds ==
    \A c \in DOMAIN caller :
        (caller[c].op = "cancel" /\ caller[c].pc = "return" /\ caller[c].result = "ok") =>
            /\ ~cancelled_ok[caller[c].sub]
            /\ \A d \in DOMAIN caller \ {c} :
                   ~(/\ caller[d].op = "cancel"
                     /\ caller[d].sub = caller[c].sub
                     /\ caller[d].pc = "return"
                     /\ caller[d].result = "ok")

\* C34: the token only moves from live to cancelled. It is live when
\* subscribe returns; the only step that cancels it is the cancellation step
\* of a cancel() call on its own Sender, so the end of the stream, a callback
\* error, a broadcast and a failed broadcast leave it as it is; and a
\* cancelled token stays cancelled.
C34_TokenOneWay ==
    /\ [][\A s \in Subs :
              (sub[s].pc # "returned" /\ sub'[s].pc = "returned") => ~cancel_token'[s]]_vars
    /\ [][\A s \in Subs : cancel_token[s] => cancel_token'[s]]_vars
    /\ [][\A s \in Subs :
              (~cancel_token[s] /\ cancel_token'[s]) =>
                  \E c \in DOMAIN caller :
                      /\ caller[c].op = "cancel"
                      /\ caller[c].sub = s
                      /\ caller[c].pc = "cancel"
                      /\ caller'[c].pc = "return"
                      /\ caller'[c].result = "ok"]_vars

\* The token was still live after the stream had ended, the callback had
\* failed and a broadcast had failed; a cancel() then cancelled it, and a
\* later broadcast failed again.
C34_Witness ==
    \E s \in Subs : \E c \in DOMAIN caller :
        /\ cancel_token[s]
        /\ cancelled_ok[s]
        /\ task[s].stop = "ended"
        /\ on_message[s].erred
        /\ caller[c].op = "broadcast"
        /\ caller[c].pc = "return"
        /\ caller[c].result = "err"

\* C35: what cancel() does and returns depends on the token only. Every step
\* of a cancel() call taken after the task has stopped at the end of the
\* stream is the step the token alone dictates: the check passes exactly when
\* the token is live, the cancellation sets the token and yields Ok; so the
\* first call on that Sender returns Ok and a call made after it returns an
\* error.
C35_CancelIgnoresTaskState ==
    /\ [][\A c \in DOMAIN caller :
              (/\ caller[c].op = "cancel"
               /\ caller'[c] # caller[c]
               /\ task[caller[c].sub].stop = "ended") =>
                  CASE caller[c].pc = "is_cancelled" ->
                           IF cancel_token[caller[c].sub]
                           THEN caller'[c].pc = "return" /\ caller'[c].result = "err"
                           ELSE caller'[c].pc = "cancel"
                    [] caller[c].pc = "cancel" ->
                           /\ caller'[c].pc = "return"
                           /\ caller'[c].result = "ok"
                           /\ cancel_token'[caller[c].sub]
                    [] OTHER -> caller'[c].pc = "idle"]_vars
    /\ [](\A c \in DOMAIN caller :
            (caller[c].op = "cancel" /\ caller[c].pc = "return") =>
                (caller[c].result = "ok" <=> ~caller[c].after_cancel))
    /\ [](\A c \in DOMAIN caller :
            (caller[c].op = "cancel" /\ caller[c].pc = "is_cancelled") =>
                ENABLED cancel_is_cancelled(c))

\* The stream ended before anything was cancelled and every item was
\* delivered; a first cancel() returned Ok and a second one has failed.
C35_Witness ==
    \E s \in Subs : \E c \in DOMAIN caller :
        /\ task[s].stop = "ended"
        /\ Len(stream[s]) >= 1
        /\ on_message[s].returned = Len(stream[s])
        /\ cancelled_ok[s]
        /\ caller[c].op = "cancel"
        /\ caller[c].sub = s
        /\ caller[c].after_cancel
        /\ caller[c].pc = "return"
        /\ caller[c].result = "err"

\* C36: subscriptions share nothing. A step of a cancel() call on one Sender
\* changes the token of that subscription at most and changes the task, the
\* stream and the callback invocations of no subscription; a task is stopped
\* by cancellation only when its own token is cancelled; a subscription whose
\* token is live keeps delivering whatever happens to the other; and every
\* callback invocation of a subscription carries an item of its own stream.
C36_SubscriptionsShareNothing ==
    /\ [][\A c \in DOMAIN caller :
              (caller[c].op = "cancel" /\ caller'[c] # caller[c]) =>
                  /\ \A s \in DOMAIN sub \ {caller[c].sub} :
                         cancel_token'[s] = cancel_token[s]
                  /\ task' = task
                  /\ on_message' = on_message
                  /\ stream' = stream
                  /\ receiver' = receiver]_vars
    /\ [](\A s \in DOMAIN sub :
            /\ task[s].stop = "cancelled" => cancel_token[s]
            /\ (sub[s].result = "ok" /\ ~cancel_token[s]) =>
                   /\ task[s].pc # "done"
                   /\ task[s].pc # "parked" => ENABLED PairTaskStep(s)
                   /\ (task[s].pc = "parked" /\ receiver[s] < Len(stream[s]))
                          => ENABLED wake(s)
            /\ Len(Calls(s)) <= Len(stream[s])
            /\ \A i \in 1..Len(Calls(s)) :
                   /\ Calls(s)[i] = message(stream[s][i])
                   /\ \A t \in DOMAIN sub \ {s} : \A j \in 1..Len(stream[t]) :
                          Calls(s)[i] # message(stream[t][j]))

\* The first Sender was cancelled and its task stopped with an item left in
\* its stream; the second subscription, to the same topic, has a live token
\* and has delivered every item of its own stream.
C36_Witness ==
    /\ sub[1].topic = sub[2].topic
    /\ cancelled_ok[1]
    /\ task[1].stop = "cancelled"
    /\ Len(Calls(1)) < Len(stream[1])
    /\ ~cancel_token[2]
    /\ Len(stream[2]) = 2
    /\ on_message[2].returned = 2
    /\ task[2].pc = "parked"

\* C37: a subscribe call whose native subscribe failed has returned that
\* failure after one native call; no task was spawned for it, its callback is
\* never invoked, its stream yields nothing, and there is no Sender: no
\* method can be called on it and nothing is there to release.
C37_NativeFailureReturned ==
    \A s \in Subs :
        (sub[s].pc = "returned" /\ sub[s].result # "ok" /\ sub[s].native_calls > 0) =>
            /\ sub[s].result = "err_native"
            /\ sub[s].native_calls = 1
            /\ task[s].pc = "none"
            /\ Calls(s) = <<>>
            /\ on_message[s].returned = 0
            /\ stream[s] = <<>>
            /\ ~cancel_token[s]
            /\ ~sub[s].dropped
            /\ \A c \in DOMAIN caller :
                   /\ caller[c].sub # s
                   /\ \A op \in SenderOps : ~ENABLED call(c, s, op)
            /\ ~ENABLED drop_sender(s)
            /\ \A item \in Items : ~ENABLED produce(s, item)
            /\ ~ENABLED TaskStep(s)

\* A subscribe call with a valid topic and valid bootstrap entries returned
\* the failure of the native subscribe.
C37_Witness ==
    \E s \in Subs :
        /\ Len(sub[s].topic) = TOPIC_LEN
        /\ sub[s].pc = "returned"
        /\ sub[s].result = "err_native"
        /\ sub[s].native_calls = 1

\* C38 (as stated): on a constructed node a protocol was created for each
\* caller-supplied entry and for nothing else, each caller-supplied tag is
\* bound to the wrapper of its own handler, and each built-in protocol that
\* was registered (gossip, blobs, and docs when enabled) is still bound to its
\* built-in handler.
C38_BuiltInsNotDisplaced ==
    node.router # "none" =>
        /\ node.created = SuppliedTags
        /\ \A tag \in SuppliedTags \ {GOSSIP_ALPN, BLOBS_ALPN, DOCS_ALPN} :
               node.registrations[tag] = ProtocolWrapper(tag)
        /\ node.registrations[GOSSIP_ALPN] = BuiltIn(GOSSIP_ALPN)
        /\ node.registrations[BLOBS_ALPN] = BuiltIn(BLOBS_ALPN)
        /\ node.options.enable_docs => node.registrations[DOCS_ALPN] = BuiltIn(DOCS_ALPN)

====
